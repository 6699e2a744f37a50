--------------------------- MODULE ResourcesProofs ---------------------------
(* Theorems about the crawls that mirror the files of the games and about  *)
(* the audit of their tree, for every set of files, whatever they name,    *)
(* and any number of processes.                                            *)
EXTENDS Resources, FiniteSetTheorems, FunctionTheorems, SequenceTheorems, WellFoundedInduction, TLAPS

-----------------------------------------------------------------------------
(* Ranks.                                                                  *)

\* A set of natural numbers has a least one.
LEMMA LeastNat ==
  ASSUME NEW T \in SUBSET Nat, T # {}
  PROVE  \E n \in T : \A m \in T : n <= m
  <1> DEFINE R == OpToRel(<, Nat)
  <1>1. IsWellFoundedOn(R, Nat)
    BY NatLessThanWellFounded
  <1>2. \A x, y \in Nat : x < y => <<x, y>> \in R
    BY DEF OpToRel
  <1> HIDE DEF R
  <1>3. PICK n \in T : \A m \in T : ~(<<m, n>> \in R)
    BY <1>1, WFMin
  <1>4. ASSUME NEW m \in T
        PROVE  n <= m
    <2>1. m \in Nat /\ n \in Nat
      OBVIOUS
    <2>2. ~(m < n)
      BY <1>2, <1>3, <2>1
    <2> QED BY <2>1, <2>2
  <1> QED BY <1>4

\* The elements of E that a numbering f puts before e.
Before(E, f, e) == {x \in E : f[x] < f[e]}

\* In a finite set numbered without repetition, every rank from 0 up is that of
\* one element.
LEMMA Ranks ==
  ASSUME NEW E, IsFiniteSet(E), NEW f \in [E -> Nat],
         \A a, b \in E : f[a] = f[b] => a = b
  PROVE  /\ Cardinality(E) \in Nat
         /\ \A e \in E : Cardinality(Before(E, f, e)) \in 0..(Cardinality(E) - 1)
         /\ \A a, b \in E :
              Cardinality(Before(E, f, a)) = Cardinality(Before(E, f, b)) => a = b
         /\ \A k \in 0..(Cardinality(E) - 1) :
              \E e \in E : Cardinality(Before(E, f, e)) = k
  <1> DEFINE rank == [e \in E |-> Cardinality(Before(E, f, e))]
             n == Cardinality(E)
  <1>1. n \in Nat
    BY FS_CardinalityType
  <1>2. ASSUME NEW e \in E
        PROVE  /\ IsFiniteSet(Before(E, f, e))
               /\ Cardinality(Before(E, f, e)) \in Nat
               /\ Cardinality(Before(E, f, e)) <= n - 1
    <2>1. IsFiniteSet(E \ {e}) /\ Cardinality(E \ {e}) = n - 1
      BY FS_RemoveElement
    <2>2. Before(E, f, e) \in SUBSET (E \ {e})
      BY DEF Before
    <2> QED BY <2>1, <2>2, FS_Subset, FS_CardinalityType
  <1>3. ASSUME NEW a \in E, NEW b \in E, f[a] < f[b]
        PROVE  Cardinality(Before(E, f, a)) < Cardinality(Before(E, f, b))
    <2>1. IsFiniteSet(Before(E, f, a) \cup {a})
          /\ Cardinality(Before(E, f, a) \cup {a}) = Cardinality(Before(E, f, a)) + 1
      <3>1. a \notin Before(E, f, a)
        BY DEF Before
      <3> QED BY <1>2, <3>1, FS_AddElement
    <2>2. Before(E, f, a) \cup {a} \in SUBSET Before(E, f, b)
      BY <1>3 DEF Before
    <2>3. Cardinality(Before(E, f, a) \cup {a}) <= Cardinality(Before(E, f, b))
      BY <1>2, <2>2, FS_Subset
    <2> QED BY <1>2, <2>1, <2>3
  <1>4. ASSUME NEW a \in E, NEW b \in E,
               Cardinality(Before(E, f, a)) = Cardinality(Before(E, f, b))
        PROVE  a = b
    <2>1. ~(f[a] < f[b]) /\ ~(f[b] < f[a])
      BY <1>2, <1>3, <1>4
    <2>2. f[a] = f[b]
      BY <2>1
    <2> QED BY <2>2
  <1>5. rank \in [E -> 0..(n - 1)]
    BY <1>1, <1>2
  <1>6. \A a, b \in E : rank[a] = rank[b] => a = b
    BY <1>4
  <1>7. rank \in Injection(E, 0..(n - 1))
    <2> HIDE DEF rank
    <2> QED BY <1>5, <1>6, Fun_IsInj
  <1>8. IsFiniteSet(0..(n - 1)) /\ Cardinality(0..(n - 1)) = n
    BY <1>1, FS_Interval
  <1>9. rank \in Surjection(E, 0..(n - 1))
    <2> HIDE DEF rank, n
    <2>1. Cardinality(E) = Cardinality(0..(n - 1))
      BY <1>8 DEF n
    <2> QED BY <1>7, <1>8, <2>1, FS_Injection
  <1>10. \A k \in 0..(n - 1) : \E e \in E : rank[e] = k
    <2> HIDE DEF rank, n
    <2> QED BY <1>9, Fun_SurjectionProperties
  <1> QED BY <1>1, <1>2, <1>4, <1>10

-----------------------------------------------------------------------------
(* What is taken from a queue.                                             *)

\* Numbers ranked by themselves.
LEMMA NumberRanks ==
  ASSUME NEW E, IsFiniteSet(E), E \subseteq Nat
  PROVE  /\ Cardinality(E) \in Nat
         /\ \A e \in E : Cardinality({k \in E : k < e}) \in 0..(Cardinality(E) - 1)
         /\ \A k \in 0..(Cardinality(E) - 1) : \E e \in E : Cardinality({m \in E : m < e}) = k
         /\ \A a, b \in E : a < b => Cardinality({m \in E : m < a}) < Cardinality({m \in E : m < b})
  <1> DEFINE f == [e \in E |-> e]
  <1>1. f \in [E -> Nat] /\ \A a, b \in E : f[a] = f[b] => a = b
    OBVIOUS
  <1>2. \A e \in E : Before(E, f, e) = {k \in E : k < e}
    BY DEF Before
  <1> HIDE DEF f
  <1>3. Cardinality(E) \in Nat
    BY FS_CardinalityType
  <1>4. \A k \in 0..(Cardinality(E) - 1) : \E e \in E : Cardinality(Before(E, f, e)) = k
    BY ONLY <1>1, IsFiniteSet(E), Ranks, SMT
  <1>5. \A e \in E : Cardinality(Before(E, f, e)) \in 0..(Cardinality(E) - 1)
    BY <1>1, Ranks
  <1>6. ASSUME NEW a \in E, NEW b \in E, a < b
        PROVE  Cardinality({m \in E : m < a}) < Cardinality({m \in E : m < b})
    <2> DEFINE A == {m \in E : m < a}
               B == {m \in E : m < b}
    <2>1. IsFiniteSet(A) /\ IsFiniteSet(B)
      BY FS_Subset
    <2>2. a \notin A /\ A \cup {a} \subseteq B
      <3>1. a \in Nat /\ b \in Nat
        OBVIOUS
      <3>2. \A m \in E : m < a => m < b
        BY <1>6, <3>1
      <3>3. ~(a < a)
        BY <3>1
      <3> QED BY <1>6, <3>2, <3>3
    <2> HIDE DEF A, B
    <2>3. IsFiniteSet(A \cup {a}) /\ Cardinality(A \cup {a}) = Cardinality(A) + 1
      BY <2>1, <2>2, FS_AddElement
    <2>4. Cardinality(A \cup {a}) <= Cardinality(B)
      BY <2>1, <2>2, FS_Subset
    <2>5. Cardinality(A) \in Nat /\ Cardinality(B) \in Nat
      BY <2>1, FS_CardinalityType
    <2>6. Cardinality(A) < Cardinality(B)
      BY <2>3, <2>4, <2>5
    <2> QED BY <2>6 DEF A, B
  <1> QED BY <1>2, <1>3, <1>6, <1>5, <1>4

\* A batch holds new URLs only, everything before the rest of the queue is
\* seen, and there is a rest only behind a batch.
LEMMA TakenFacts ==
  ASSUME NEW T, NEW queue \in Seq(T), NEW seen
  PROVE  LET taken == Taken(queue, seen) IN
         /\ taken = [batch |-> taken.batch, queue |-> taken.queue, seen |-> taken.seen]
         /\ taken.batch \in Seq(T) /\ Len(taken.batch) <= Concurrency
         /\ \A n \in DOMAIN taken.batch : \E i \in New(queue, seen) : taken.batch[n] = queue[i]
         /\ taken.seen = seen \cup {taken.batch[n].url : n \in DOMAIN taken.batch}
         /\ \E end \in 0..Len(queue) :
              /\ taken.queue = SubSeq(queue, end + 1, Len(queue))
              /\ \A k \in 1..end : queue[k].url \in taken.seen
         /\ taken.batch = <<>> => taken.queue = <<>>
  <1> DEFINE new == New(queue, seen)
             before(i) == Cardinality({k \in new : k < i})
             size == IF Cardinality(new) < Concurrency THEN Cardinality(new) ELSE Concurrency
             nth(n) == CHOOSE i \in new : before(i) = n - 1
             end == IF size < Concurrency THEN Len(queue) ELSE nth(size)
             batch == [n \in 1..size |-> queue[nth(n)]]
             rest == SubSeq(queue, end + 1, Len(queue))
             all == seen \cup {queue[nth(n)].url : n \in 1..size}
             taken == Taken(queue, seen)
  <1>1. taken = [batch |-> batch, queue |-> rest, seen |-> all]
    BY DEF Taken
  <1>2. /\ Len(queue) \in Nat /\ DOMAIN queue = 1..Len(queue)
        /\ new \subseteq 1..Len(queue) /\ IsFiniteSet(1..Len(queue))
    <2>1. Len(queue) \in Nat /\ DOMAIN queue = 1..Len(queue)
      BY LenProperties
    <2>2. new \subseteq DOMAIN queue
      BY DEF New
    <2>3. IsFiniteSet(1..Len(queue))
      BY <2>1, FS_Interval
    <2> HIDE DEF new
    <2> QED BY <2>1, <2>2, <2>3
  <1>3. IsFiniteSet(new) /\ new \subseteq Nat
    BY <1>2, FS_Subset
  <1>4. Concurrency \in Nat \ {0}
    BY ResourcesAssumption
  <1>5. /\ Cardinality(new) \in Nat
        /\ \A i \in new : before(i) \in 0..(Cardinality(new) - 1)
        /\ \A k \in 0..(Cardinality(new) - 1) : \E i \in new : before(i) = k
        /\ \A i, k \in new : i < k => before(i) < before(k)
    <2> HIDE DEF new
    <2> QED BY <1>3, NumberRanks
  <1>6. size \in Nat /\ size <= Concurrency /\ size <= Cardinality(new)
    BY <1>4, <1>5
  <1>7. ASSUME NEW n \in 1..size
        PROVE  nth(n) \in new /\ before(nth(n)) = n - 1
    <2>1. n - 1 \in 0..(Cardinality(new) - 1)
      BY <1>5, <1>6
    <2>2. \E i \in new : before(i) = n - 1
      BY <1>5, <2>1
    <2> HIDE DEF before, new
    <2> QED BY <2>2
  <1>8. end \in 0..Len(queue)
    <2>1. CASE size < Concurrency
      BY <1>2, <2>1
    <2>2. CASE ~(size < Concurrency)
      <3>1. size \in 1..size
        BY <1>4, <1>6, <2>2
      <3>2. nth(size) \in 1..Len(queue)
        BY <1>2, <1>7, <3>1
      <3>3. end = nth(size)
        BY <2>2
      <3> HIDE DEF end, nth
      <3> QED BY <1>2, <3>2, <3>3
    <2> QED BY <2>1, <2>2
  <1>9. ASSUME NEW k \in 1..end
        PROVE  queue[k].url \in all
    <2> DEFINE same == {i \in 1..k : queue[i].url = queue[k].url}
    <2>1. k \in 1..Len(queue) /\ k \in Nat
      <3> HIDE DEF end
      <3> QED BY <1>2, <1>8
    <2>2. same \in SUBSET Nat /\ k \in same
      BY <2>1
    <2>3. PICK i \in same : \A m \in same : i <= m
      <3> HIDE DEF same
      <3> QED BY <2>2, LeastNat
    <2>4. i \in 1..k /\ queue[i].url = queue[k].url
      OBVIOUS
    <2>5. \A m \in 1..(i - 1) : queue[m].url # queue[i].url
      <3> SUFFICES ASSUME NEW m \in 1..(i - 1), queue[m].url = queue[i].url
                   PROVE  FALSE
        OBVIOUS
      <3>1. m \in same /\ ~(i <= m)
        BY <2>1, <2>4
      <3> QED BY <2>3, <3>1
    <2>6. CASE queue[i].url \in seen
      BY <2>4, <2>6
    <2>7. CASE queue[i].url \notin seen
      <3>1. i \in new
        BY <1>2, <2>1, <2>4, <2>5, <2>7 DEF New
      <3>2. before(i) <= size - 1
        <4>1. CASE size < Concurrency
          BY <1>5, <1>6, <3>1, <4>1
        <4>2. CASE ~(size < Concurrency)
          <5>1. size \in 1..size
            BY <1>4, <1>6, <4>2
          <5>2. nth(size) \in new /\ before(nth(size)) = size - 1
            <6> HIDE DEF nth, size, new, before
            <6> QED BY <1>7, <5>1
          <5>3. i <= nth(size)
            <6>1. end = nth(size)
              BY <4>2
            <6> HIDE DEF end, nth, size
            <6> QED BY <2>1, <2>4, <6>1, <1>8
          <5>4. before(i) <= before(nth(size))
            <6>1. CASE i = nth(size)
              <7> HIDE DEF nth, size
              <7> QED BY <6>1, <5>2, <1>6
            <6>2. CASE i # nth(size)
              <7>1. i < nth(size)
                <8> HIDE DEF nth, size, new
                <8>1. i \in Nat /\ nth(size) \in Nat
                  BY <1>3, <3>1, <5>2
                <8> QED BY <5>3, <6>2, <8>1
              <7>2. before(i) < before(nth(size))
                <8> HIDE DEF nth, size, new, before
                <8> QED BY <1>5, <3>1, <5>2, <7>1
              <7>3. before(i) \in Nat /\ before(nth(size)) \in Nat
                <8>1. \A c, e \in Nat : e \in 0..(c - 1) => e \in Nat
                  OBVIOUS
                <8> HIDE DEF nth, size, new, before
                <8>2. before(i) \in 0..(Cardinality(new) - 1)
                  BY <1>5, <3>1
                <8>3. before(nth(size)) \in 0..(Cardinality(new) - 1)
                  BY <1>5, <5>2
                <8> QED BY <8>2, <8>3
              <7> HIDE DEF nth, size, new, before
              <7> QED BY <7>2, <7>3
            <6> QED BY <6>1, <6>2
          <5> HIDE DEF nth, size, new, before
          <5> QED BY <5>2, <5>4
        <4> QED BY <4>1, <4>2
      <3>3. before(i) + 1 \in 1..size /\ before(i) \in Nat
        <4> HIDE DEF size, new, before
        <4> QED BY <1>5, <1>6, <3>1, <3>2
      <3> DEFINE n == before(i) + 1
      <3>4. nth(n) \in new /\ before(nth(n)) = before(i)
        <4>1. nth(n) \in new /\ before(nth(n)) = n - 1
          <5> HIDE DEF n, size, new, before, nth
          <5> QED BY <1>7, <3>3 DEF n
        <4> HIDE DEF size, new, before, nth
        <4> QED BY <3>3, <4>1
      <3>5. nth(n) = i
        <4> HIDE DEF size, new, before, nth, n
        <4>1. nth(n) \in Nat /\ i \in Nat /\ before(i) \in Nat
          BY <1>3, <3>1, <3>3, <3>4
        <4>2. ~(nth(n) < i) /\ ~(i < nth(n))
          BY <1>5, <3>1, <3>4, <4>1
        <4> QED BY <4>1, <4>2
      <3> HIDE DEF size, new, before, nth
      <3> QED BY <2>4, <3>3, <3>5
    <2> QED BY <2>6, <2>7
  <1>10. batch \in Seq(T) /\ Len(batch) = size /\ DOMAIN batch = 1..size
    <2>1. \A n \in 1..size : queue[nth(n)] \in T
      <3> SUFFICES ASSUME NEW n \in 1..size
                   PROVE  queue[nth(n)] \in T
        OBVIOUS
      <3>1. nth(n) \in 1..Len(queue)
        BY <1>2, <1>7
      <3> HIDE DEF nth, size
      <3> QED BY <3>1, ElementOfSeq
    <2> HIDE DEF nth, size
    <2>2. batch \in [1..size -> T]
      BY <2>1
    <2> QED BY <1>6, <2>2, SeqDef, LenProperties
  <1>11. ASSUME batch = <<>>
         PROVE  rest = <<>>
    <2>1. size = 0
      <3> HIDE DEF size, batch
      <3> QED BY <1>10, <1>11
    <2>2. end = Len(queue)
      BY <1>4, <2>1
    <2> HIDE DEF end, size
    <2> QED BY <1>2, <2>2, SubSeqProperties
  <1>12. all = seen \cup {batch[n].url : n \in DOMAIN batch}
    <2>1. \A n \in 1..size : batch[n] = queue[nth(n)]
      OBVIOUS
    <2> HIDE DEF batch, size, nth
    <2> QED BY <1>10, <2>1
  <1>13. \A n \in DOMAIN batch : \E i \in new : batch[n] = queue[i]
    <2>1. \A n \in 1..size : batch[n] = queue[nth(n)]
      OBVIOUS
    <2> HIDE DEF batch, size, nth, new
    <2> QED BY <1>10, <2>1, <1>7
  <1> HIDE DEF batch, rest, all, end, size, new, nth, before
  <1>14. taken.batch = batch /\ taken.queue = rest /\ taken.seen = all
    BY <1>1
  <1>15. /\ rest = SubSeq(queue, end + 1, Len(queue))
         /\ \A k \in 1..end : queue[k].url \in all
    BY <1>9 DEF rest
  <1>16. new = New(queue, seen)
    BY DEF new
  <1> HIDE DEF taken
  <1>17. /\ taken = [batch |-> taken.batch, queue |-> taken.queue, seen |-> taken.seen]
         /\ taken.batch \in Seq(T) /\ Len(taken.batch) <= Concurrency
         /\ \A n \in DOMAIN taken.batch : \E i \in New(queue, seen) : taken.batch[n] = queue[i]
         /\ taken.seen = seen \cup {taken.batch[n].url : n \in DOMAIN taken.batch}
         /\ taken.batch = <<>> => taken.queue = <<>>
    BY <1>1, <1>6, <1>10, <1>11, <1>12, <1>13, <1>14, <1>16
  <1>18. \E e \in 0..Len(queue) :
           /\ taken.queue = SubSeq(queue, e + 1, Len(queue))
           /\ \A k \in 1..e : queue[k].url \in taken.seen
    BY <1>8, <1>14, <1>15
  <1> QED BY <1>17, <1>18 DEF taken

-----------------------------------------------------------------------------
(* What goes into a queue.                                                 *)

Origins == Urls \cup {"entry"}
Asked == [url : Urls, from : Origins, stage : {"look", "fetch", "write", "done"}, version : Nat, fetched : BOOLEAN]
Looks(from, urls) == {Item(u, from) : u \in urls}

\* The requests for a set of URLs are one for each of them.
LEMMA ItemsFacts ==
  ASSUME NEW urls \in SUBSET Urls, NEW from \in Origins
  PROVE  /\ Items(urls, from) \in Seq(Asked)
         /\ \A n \in DOMAIN Items(urls, from) : Items(urls, from)[n] \in Looks(from, urls)
         /\ \A u \in urls : \E n \in DOMAIN Items(urls, from) : Items(urls, from)[n] = Item(u, from)
  <1> DEFINE order == [u \in urls |-> Site[u].order]
             before(u) == Cardinality({v \in urls : Site[v].order < Site[u].order})
             size == Cardinality(urls)
             nth(i) == CHOOSE u \in urls : before(u) = i - 1
             items == [i \in 1..size |-> Item(nth(i), from)]
  <1>1. IsFiniteSet(urls) /\ order \in [urls -> Nat] /\ \A a, b \in urls : order[a] = order[b] => a = b
    BY FS_Subset, ResourcesAssumption
  <1>2. \A u \in urls : Before(urls, order, u) = {v \in urls : Site[v].order < Site[u].order}
    BY DEF Before
  <1>3. Items(urls, from) = items
    BY DEF Items
  <1> HIDE DEF order
  <1>4. /\ size \in Nat
        /\ \A u \in urls : before(u) \in 0..(size - 1)
        /\ \A u, v \in urls : before(u) = before(v) => u = v
        /\ \A k \in 0..(size - 1) : \E u \in urls : before(u) = k
    <2>1. size \in Nat
      BY <1>1, FS_CardinalityType
    <2>2. \A u \in urls : Cardinality(Before(urls, order, u)) \in 0..(Cardinality(urls) - 1)
      BY ONLY <1>1, Ranks, SMT
    <2>3. \A u, v \in urls :
            Cardinality(Before(urls, order, u)) = Cardinality(Before(urls, order, v)) => u = v
      BY ONLY <1>1, Ranks, SMT
    <2>4. \A k \in 0..(Cardinality(urls) - 1) :
            \E u \in urls : Cardinality(Before(urls, order, u)) = k
      BY ONLY <1>1, Ranks, SMT
    <2>5. \A u \in urls : before(u) = Cardinality(Before(urls, order, u))
      BY <1>2
    <2> HIDE DEF before
    <2> QED BY <2>1, <2>2, <2>3, <2>4, <2>5
  <1> HIDE DEF before, size
  <1>5. ASSUME NEW i \in 1..size
        PROVE  nth(i) \in urls /\ before(nth(i)) = i - 1
    <2>1. i - 1 \in 0..(size - 1)
      BY <1>4
    <2>2. \E u \in urls : before(u) = i - 1
      BY <1>4, <2>1
    <2> QED BY <2>2
  <1>6. \A u \in urls : Item(u, from) \in Asked
    BY DEF Item, Asked
  <1> HIDE DEF nth
  <1>7. /\ items \in [1..size -> Asked] /\ DOMAIN items = 1..size
        /\ \A i \in 1..size : items[i] = Item(nth(i), from)
    BY <1>5, <1>6
  <1>8. ASSUME NEW u \in urls
        PROVE  \E i \in 1..size : items[i] = Item(u, from)
    <2>1. before(u) + 1 \in 1..size /\ (before(u) + 1) - 1 = before(u)
      BY <1>4
    <2>2. nth(before(u) + 1) \in urls /\ before(nth(before(u) + 1)) = before(u)
      BY <1>5, <2>1
    <2>3. nth(before(u) + 1) = u
      BY <1>4, <2>2
    <2> QED BY <1>7, <2>1, <2>3
  <1> HIDE DEF items
  <1>9. items \in Seq(Asked)
    BY <1>4, <1>7, SeqDef
  <1> QED BY <1>3, <1>5, <1>7, <1>8, <1>9 DEF Looks

\* The elements of a sequence of sequences, laid end to end.
LEMMA FlatFacts ==
  ASSUME NEW T, NEW seqs \in Seq(Seq(T))
  PROVE  /\ FlattenSeq(seqs) \in Seq(T)
         /\ \A k \in DOMAIN FlattenSeq(seqs) :
              \E i \in DOMAIN seqs : \E n \in DOMAIN seqs[i] : FlattenSeq(seqs)[k] = seqs[i][n]
         /\ \A i \in DOMAIN seqs : \A n \in DOMAIN seqs[i] :
              \E k \in DOMAIN FlattenSeq(seqs) : FlattenSeq(seqs)[k] = seqs[i][n]
  <1> DEFINE Laid(i, f) == IF i = 1 THEN seqs[i] ELSE f[i - 1] \o seqs[i]
             Graph(m, f) == f = [i \in 1..m |-> Laid(i, f)]
             From(m, s) == \A k \in DOMAIN s : \E i \in 1..m : \E n \in DOMAIN seqs[i] : s[k] = seqs[i][n]
             All(m, s) == \A i \in 1..m : \A n \in DOMAIN seqs[i] : \E k \in DOMAIN s : s[k] = seqs[i][n]
             Good(m, s) == s \in Seq(T) /\ From(m, s) /\ All(m, s)
  <1>1. Len(seqs) \in Nat /\ DOMAIN seqs = 1..Len(seqs) /\ \A i \in 1..Len(seqs) : seqs[i] \in Seq(T)
    BY LenProperties, ElementOfSeq
  <1>2. \A m \in 0..Len(seqs) : \E f : Graph(m, f)
    <2> DEFINE Wrong == {m \in 0..Len(seqs) : ~\E f : Graph(m, f)}
    <2> SUFFICES ASSUME Wrong # {}
                 PROVE  FALSE
      OBVIOUS
    <2>1. Wrong \subseteq Nat
      <3>1. Wrong \subseteq 0..Len(seqs) /\ 0..Len(seqs) \subseteq Nat
        <4> HIDE DEF Graph
        <4> QED BY <1>1
      <3> HIDE DEF Wrong
      <3> QED BY <3>1
    <2>2. PICK m \in Wrong : \A l \in Wrong : m <= l
      BY <2>1, LeastNat
    <2>3. m # 0
      <3> DEFINE f == [i \in 1..0 |-> <<>>]
      <3>1. f = [i \in 1..0 |-> Laid(i, f)]
        OBVIOUS
      <3> QED BY <3>1, <2>2
    <2>4. m - 1 \in 0..Len(seqs) /\ m - 1 \notin Wrong
      <3>1. m - 1 \in 0..Len(seqs) /\ ~(m <= m - 1)
        BY <1>1, <2>1, <2>2, <2>3
      <3> HIDE DEF Wrong
      <3> QED BY <2>2, <3>1
    <2>5. PICK f : Graph(m - 1, f)
      BY <2>4
    <2> DEFINE g == [i \in 1..m |-> IF i = m THEN Laid(m, f) ELSE f[i]]
    <2>6. \A i \in 1..m : g[i] = Laid(i, g)
      <3> SUFFICES ASSUME NEW i \in 1..m
                   PROVE  g[i] = Laid(i, g)
        OBVIOUS
      <3>1. m \in Nat
        BY <2>1
      <3>2. CASE i = m
        <4>1. i # 1 => g[i - 1] = f[i - 1]
          BY <3>1, <3>2, <2>3
        <4> QED BY <3>1, <3>2, <4>1
      <3>3. CASE i # m
        <4>1. i \in 1..(m - 1) /\ g[i] = f[i]
          BY <3>1, <3>3
        <4>2. f[i] = Laid(i, f)
          BY <2>5, <4>1
        <4>3. i # 1 => g[i - 1] = f[i - 1]
          BY <3>1, <4>1
        <4> QED BY <4>1, <4>2, <4>3
      <3> QED BY <3>2, <3>3
    <2>7. Graph(m, g)
      BY <2>6
    <2> QED BY <2>2, <2>7
  <1> DEFINE laid == CHOOSE f : Graph(Len(seqs), f)
  <1>3. Graph(Len(seqs), laid)
    <2> HIDE DEF Graph
    <2>1. \E f : Graph(Len(seqs), f)
      <3>1. Len(seqs) \in 0..Len(seqs)
        BY <1>1
      <3> QED BY <1>2, <3>1
    <2> QED BY <2>1
  <1>4. \A i \in 1..Len(seqs) : laid[i] = Laid(i, laid)
    <2> HIDE DEF laid, Laid
    <2> QED BY <1>3
  <1>5. FlattenSeq(seqs) = IF Len(seqs) = 0 THEN seqs ELSE laid[Len(seqs)]
    BY DEF FlattenSeq
  <1> HIDE DEF laid
  <1>6. ASSUME NEW m \in 1..Len(seqs), m # 1, Good(m - 1, laid[m - 1])
        PROVE  Good(m, laid[m])
    <2> DEFINE s == laid[m - 1]
               t == seqs[m]
    <2>1. m \in Nat /\ m - 1 \in 1..Len(seqs) /\ m \notin 1..(m - 1) /\ 1..m = 1..(m - 1) \cup {m}
      BY <1>1, <1>6
    <2>2. laid[m] = s \o t
      BY <1>4, <1>6
    <2>3. s \in Seq(T) /\ t \in Seq(T)
      BY <1>1, <1>6
    <2>4. From(m - 1, s) /\ All(m - 1, s)
      BY <1>6
    <2> HIDE DEF s
    <2>5. /\ s \o t \in Seq(T) /\ Len(s \o t) = Len(s) + Len(t)
          /\ \A k \in 1..(Len(s) + Len(t)) : (s \o t)[k] = IF k <= Len(s) THEN s[k] ELSE t[k - Len(s)]
          /\ Len(s) \in Nat /\ Len(t) \in Nat /\ DOMAIN s = 1..Len(s) /\ DOMAIN t = 1..Len(t)
          /\ DOMAIN (s \o t) = 1..(Len(s) + Len(t))
      BY <2>3, ConcatProperties, LenProperties
    <2>6. From(m, s \o t)
      <3> SUFFICES ASSUME NEW k \in 1..(Len(s) + Len(t))
                   PROVE  \E i \in 1..m : \E n \in DOMAIN seqs[i] : (s \o t)[k] = seqs[i][n]
        BY <2>5
      <3>1. CASE k <= Len(s)
        <4>1. k \in DOMAIN s /\ (s \o t)[k] = s[k]
          BY <2>5, <3>1
        <4> QED BY <2>1, <2>4, <4>1
      <3>2. CASE ~(k <= Len(s))
        <4>1. k - Len(s) \in DOMAIN t /\ (s \o t)[k] = t[k - Len(s)]
          BY <2>5, <3>2
        <4> QED BY <2>1, <4>1
      <3> QED BY <3>1, <3>2
    <2>7. All(m, s \o t)
      <3> SUFFICES ASSUME NEW i \in 1..m, NEW n \in DOMAIN seqs[i]
                   PROVE  \E k \in 1..(Len(s) + Len(t)) : (s \o t)[k] = seqs[i][n]
        BY <2>5
      <3>1. CASE i = m
        <4>1. n \in 1..Len(t) /\ seqs[i][n] = t[n]
          BY <2>5, <3>1
        <4>2. Len(s) + n \in 1..(Len(s) + Len(t)) /\ ~(Len(s) + n <= Len(s)) /\ (Len(s) + n) - Len(s) = n
          BY <2>5, <4>1
        <4>3. (s \o t)[Len(s) + n] = t[n]
          BY <2>5, <4>2
        <4> QED BY <4>1, <4>2, <4>3
      <3>2. CASE i # m
        <4>1. i \in 1..(m - 1)
          BY <2>1, <3>2
        <4>2. PICK k \in DOMAIN s : s[k] = seqs[i][n]
          BY <2>4, <4>1
        <4>3. k \in 1..(Len(s) + Len(t)) /\ k <= Len(s)
          BY <2>5
        <4>4. (s \o t)[k] = s[k]
          BY <2>5, <4>3
        <4> QED BY <4>2, <4>3, <4>4
      <3> QED BY <3>1, <3>2
    <2> HIDE DEF From, All
    <2> QED BY <2>2, <2>5, <2>6, <2>7
  <1>7. \A m \in 1..Len(seqs) : Good(m, laid[m])
    <2> DEFINE Wrong == {m \in 1..Len(seqs) : ~Good(m, laid[m])}
    <2> SUFFICES ASSUME Wrong # {}
                 PROVE  FALSE
      OBVIOUS
    <2>1. Wrong \subseteq Nat
      BY <1>1
    <2>2. PICK m \in Wrong : \A l \in Wrong : m <= l
      <3> HIDE DEF Wrong
      <3> QED BY <2>1, LeastNat
    <2>3. m \in 1..Len(seqs) /\ ~Good(m, laid[m])
      OBVIOUS
    <2>4. m # 1
      <3> SUFFICES ASSUME m = 1
                   PROVE  Good(1, laid[1])
        <4> HIDE DEF Good
        <4> QED BY <2>3
      <3>1. laid[1] = seqs[1] /\ seqs[1] \in Seq(T)
        BY <1>1, <1>4, <2>3
      <3>2. From(1, seqs[1]) /\ All(1, seqs[1])
        OBVIOUS
      <3> QED BY <3>1, <3>2
    <2>5. m - 1 \in 1..Len(seqs) /\ ~(m <= m - 1)
      BY <1>1, <2>3, <2>4
    <2>6. Good(m - 1, laid[m - 1])
      <3>1. m - 1 \notin Wrong
        <4> HIDE DEF Wrong
        <4> QED BY <2>2, <2>5
      <3> HIDE DEF Good
      <3> QED BY <2>5, <3>1
    <2> HIDE DEF Good
    <2> QED BY <1>6, <2>3, <2>4, <2>6
  <1>8. CASE Len(seqs) = 0
    <2>1. seqs = <<>> /\ FlattenSeq(seqs) = <<>>
      BY <1>5, <1>8, EmptySeq
    <2>2. <<>> \in Seq(T) /\ DOMAIN seqs = {} /\ DOMAIN FlattenSeq(seqs) = {}
      BY <1>1, <1>8, <2>1, EmptySeq
    <2> QED BY <2>1, <2>2
  <1>9. CASE Len(seqs) # 0
    <2>1. Len(seqs) \in 1..Len(seqs) /\ FlattenSeq(seqs) = laid[Len(seqs)]
      BY <1>1, <1>5, <1>9
    <2>2. Good(Len(seqs), FlattenSeq(seqs))
      <3> HIDE DEF Good
      <3> QED BY <1>7, <2>1
    <2> QED BY <1>1, <2>2
  <1> QED BY <1>8, <1>9

-----------------------------------------------------------------------------
(* A crawl.                                                                *)

File == [url : Urls, version : Nat \ {0}]
FailedFile == [url : Urls, from : Origins, status : Nat]
Hosts == {Site[u].host : u \in Urls} \cup {"static"}
Crawls ==
  [at : {"crawl", "report"}, tool : {"download", "network"}, game : Games, entries : SUBSET Urls,
   hosts : SUBSET Hosts, runs : SUBSET Runs, batch : Seq(Asked), queue : Seq(Asked),
   seen : SUBSET Urls, files : SUBSET File, failed : SUBSET FailedFile]

\* What waits in a queue was not asked for yet, an entry that was not taken yet
\* waits as an entry, and no other request for it is in front of that.
Ahead(queue, seen, entries) ==
  /\ \A k \in DOMAIN queue : queue[k].stage = "look" /\ queue[k].version = 0
  /\ \A k \in DOMAIN queue : queue[k].url \in entries /\ queue[k].from # "entry" =>
       queue[k].url \in seen \/ \E i \in 1..(k - 1) : queue[i].url = queue[k].url /\ queue[i].from = "entry"
  /\ \A u \in entries : u \in seen \/ \E k \in DOMAIN queue : queue[k].url = u /\ queue[k].from = "entry"

\* An URL a crawl has taken is in its batch, of no concern or in its result.
Settled(r, u) ==
  \/ \E n \in DOMAIN r.batch : r.batch[n].url = u /\ r.batch[n].stage # "done"
  \/ Site[u].host \notin r.hosts
  \/ \E f \in r.files : f.url = u
  \/ \E x \in r.failed : x.url = u

\* What a file names has been taken, waits, or will be queued with the batch.
Followed(r, f) ==
  \A u \in References(f.url, f.version, FALSE) :
    \/ u \in r.seen
    \/ \E k \in DOMAIN r.queue : r.queue[k].url = u
    \/ \E n \in DOMAIN r.batch : r.batch[n].url = f.url /\ r.batch[n].stage = "done" /\ r.batch[n].version = f.version

Walked(r) ==
  /\ Len(r.batch) <= Concurrency
  /\ Ahead(r.queue, r.seen, r.entries)
  /\ \A n \in DOMAIN r.batch : r.batch[n].url \in r.entries => r.batch[n].from = "entry"
  /\ \A x \in r.failed : x.url \in r.entries => x.from = "entry"
  /\ \A u \in r.seen : Settled(r, u)
  /\ \A f \in r.files : Followed(r, f)
  /\ r.tool = "download" => "static" \in r.hosts
  /\ r.at = "report" => r.batch = <<>> /\ r.queue = <<>>

\* Against a tree d and a provider s: what a crawl has recorded was served and
\* is in the tree, and what it is about to write was served.
Real(r, d, s) ==
  /\ \A f \in r.files : f.version <= s[PathOf(f.url)] /\ d[PathOf(f.url)] # 0
  /\ \A n \in DOMAIN r.batch : r.batch[n].stage \in {"write", "done"} => r.batch[n].version <= s[PathOf(r.batch[n].url)]
  /\ \A n \in DOMAIN r.batch : r.batch[n].stage = "write" => r.batch[n].version # 0
  /\ \A n \in DOMAIN r.batch : r.batch[n].stage \in {"look", "fetch"} => r.batch[n].version = 0

\* The batch and the rest of a queue in order are in order.
LEMMA TakenAhead ==
  ASSUME NEW queue \in Seq(Asked), NEW seen \in SUBSET Urls, NEW entries, Ahead(queue, seen, entries)
  PROVE  LET taken == Taken(queue, seen) IN
         /\ taken = [batch |-> taken.batch, queue |-> taken.queue, seen |-> taken.seen]
         /\ taken.batch \in Seq(Asked) /\ Len(taken.batch) <= Concurrency /\ taken.queue \in Seq(Asked)
         /\ taken.seen = seen \cup {taken.batch[n].url : n \in DOMAIN taken.batch} /\ taken.seen \in SUBSET Urls
         /\ \A n \in DOMAIN taken.batch :
              /\ taken.batch[n].stage = "look" /\ taken.batch[n].version = 0 /\ taken.batch[n].url \notin seen
              /\ taken.batch[n].url \in entries => taken.batch[n].from = "entry"
         /\ Ahead(taken.queue, taken.seen, entries)
         /\ \A k \in DOMAIN queue :
              queue[k].url \in taken.seen \/ \E i \in DOMAIN taken.queue : taken.queue[i].url = queue[k].url
         /\ taken.batch = <<>> => taken.queue = <<>>
  <1> DEFINE taken == Taken(queue, seen)
             rest == taken.queue
  <1>1. /\ taken = [batch |-> taken.batch, queue |-> taken.queue, seen |-> taken.seen]
        /\ taken.batch \in Seq(Asked) /\ Len(taken.batch) <= Concurrency
        /\ \A n \in DOMAIN taken.batch : \E i \in New(queue, seen) : taken.batch[n] = queue[i]
        /\ taken.seen = seen \cup {taken.batch[n].url : n \in DOMAIN taken.batch}
        /\ taken.batch = <<>> => taken.queue = <<>>
    BY TakenFacts
  <1>2. PICK end \in 0..Len(queue) :
          /\ rest = SubSeq(queue, end + 1, Len(queue))
          /\ \A k \in 1..end : queue[k].url \in taken.seen
    BY TakenFacts
  <1> HIDE DEF taken
  <1>3. /\ Len(queue) \in Nat /\ DOMAIN queue = 1..Len(queue)
        /\ \A k \in 1..Len(queue) : queue[k] \in Asked
    BY LenProperties, ElementOfSeq
  <1>4. end \in Nat /\ end <= Len(queue)
    BY <1>3
  <1>5. /\ rest \in Seq(Asked) /\ DOMAIN rest = 1..(Len(queue) - end)
        /\ \A k \in 1..(Len(queue) - end) : rest[k] = queue[end + k]
    <2>1. \A k \in (end + 1)..Len(queue) : queue[k] \in Asked
      BY <1>3, <1>4
    <2>2. rest = SubSeq(queue, end + 1, Len(queue))
      BY <1>2
    <2>3. /\ rest \in Seq(Asked)
          /\ Len(rest) = IF end + 1 <= Len(queue) THEN Len(queue) - (end + 1) + 1 ELSE 0
          /\ \A k \in 1..(Len(queue) - (end + 1) + 1) : rest[k] = queue[(end + 1) + k - 1]
      BY <1>3, <1>4, <2>1, <2>2, SubSeqProperties
    <2>4. Len(rest) = Len(queue) - end /\ DOMAIN rest = 1..Len(rest)
      <3> HIDE DEF rest
      <3>1. DOMAIN rest = 1..Len(rest)
        BY <2>3, LenProperties
      <3>2. \A a, b \in Nat : a <= b => (IF a + 1 <= b THEN b - (a + 1) + 1 ELSE 0) = b - a
        OBVIOUS
      <3>3. Len(queue) \in Nat
        BY <1>3
      <3>4. (IF end + 1 <= Len(queue) THEN Len(queue) - (end + 1) + 1 ELSE 0) = Len(queue) - end
        BY ONLY <1>4, <3>2, <3>3
      <3> QED BY <2>3, <3>1, <3>4
    <2>5. \A k \in 1..(Len(queue) - end) :
            k \in 1..(Len(queue) - (end + 1) + 1) /\ (end + 1) + k - 1 = end + k
      BY <1>3, <1>4
    <2> HIDE DEF rest
    <2> QED BY <2>3, <2>4, <2>5
  <1>6. \A k \in 1..Len(queue) : k \notin 1..end => k - end \in 1..(Len(queue) - end) /\ end + (k - end) = k
    BY <1>3, <1>4
  <1>7. \A k \in 1..(Len(queue) - end) : end + k \in 1..Len(queue)
    BY <1>3, <1>4
  <1>8. \A k \in 1..Len(queue) : queue[k].url \in taken.seen \/ (k - end \in DOMAIN rest /\ rest[k - end] = queue[k])
    <2> HIDE DEF rest
    <2> SUFFICES ASSUME NEW k \in 1..Len(queue), k \notin 1..end
                 PROVE  k - end \in DOMAIN rest /\ rest[k - end] = queue[k]
      BY <1>2
    <2> QED BY <1>5, <1>6
  <1>9. \A n \in DOMAIN taken.batch :
          /\ taken.batch[n].stage = "look" /\ taken.batch[n].version = 0 /\ taken.batch[n].url \in Urls /\ taken.batch[n].url \notin seen
          /\ taken.batch[n].url \in entries => taken.batch[n].from = "entry"
    <2> SUFFICES ASSUME NEW n \in DOMAIN taken.batch
                 PROVE  /\ taken.batch[n].stage = "look" /\ taken.batch[n].version = 0 /\ taken.batch[n].url \in Urls /\ taken.batch[n].url \notin seen
                        /\ taken.batch[n].url \in entries => taken.batch[n].from = "entry"
      OBVIOUS
    <2>1. PICK i \in New(queue, seen) : taken.batch[n] = queue[i]
      BY <1>1
    <2>2. i \in DOMAIN queue /\ queue[i].url \notin seen /\ \A k \in 1..(i - 1) : queue[k].url # queue[i].url
      BY DEF New
    <2>3. queue[i].stage = "look" /\ queue[i].version = 0 /\ queue[i].url \in Urls
      BY <1>3, <2>2 DEF Ahead, Asked
    <2>4. queue[i].url \in entries => queue[i].from = "entry"
      BY <2>2 DEF Ahead
    <2> QED BY <2>1, <2>2, <2>3, <2>4
  <1>10. taken.seen \in SUBSET Urls
    BY <1>1, <1>9
  <1>11. Ahead(rest, taken.seen, entries)
    <2>1. \A k \in DOMAIN rest : rest[k].stage = "look" /\ rest[k].version = 0
      <3> HIDE DEF rest
      <3> SUFFICES ASSUME NEW k \in DOMAIN rest
                   PROVE  rest[k].stage = "look" /\ rest[k].version = 0
        OBVIOUS
      <3>1. rest[k] = queue[end + k] /\ end + k \in DOMAIN queue
        BY <1>3, <1>5, <1>7
      <3> QED BY <3>1 DEF Ahead
    <2>2. ASSUME NEW k \in DOMAIN rest, rest[k].url \in entries, rest[k].from # "entry", rest[k].url \notin taken.seen
          PROVE  \E i \in 1..(k - 1) : rest[i].url = rest[k].url /\ rest[i].from = "entry"
      <3> HIDE DEF rest
      <3>1. k \in 1..(Len(queue) - end) /\ end + k \in 1..Len(queue) /\ rest[k] = queue[end + k]
        BY <1>5, <1>7
      <3>2. rest[k].url \notin seen
        BY <1>1, <2>2
      <3>3. PICK m \in 1..((end + k) - 1) : queue[m].url = queue[end + k].url /\ queue[m].from = "entry"
        BY <1>3, <2>2, <3>1, <3>2 DEF Ahead
      <3>4. m \in 1..Len(queue) /\ queue[m].url \notin taken.seen
        BY <1>3, <1>4, <2>2, <3>1, <3>3
      <3>5. m \notin 1..end
        BY <1>2, <3>4
      <3>6. m - end \in 1..(k - 1)
        BY <1>3, <1>4, <3>1, <3>5
      <3>7. rest[m - end] = queue[m]
        BY <1>8, <3>4
      <3> QED BY <3>1, <3>3, <3>6, <3>7
    <2>3. ASSUME NEW u \in entries, u \notin taken.seen
          PROVE  \E k \in DOMAIN rest : rest[k].url = u /\ rest[k].from = "entry"
      <3>1. u \notin seen
        BY <1>1, <2>3
      <3>2. PICK k \in DOMAIN queue : queue[k].url = u /\ queue[k].from = "entry"
        BY <3>1 DEF Ahead
      <3> HIDE DEF rest
      <3> QED BY <1>3, <1>8, <2>3, <3>2
    <2> HIDE DEF rest
    <2> QED BY <2>1, <2>2, <2>3 DEF Ahead
  <1>12. \A k \in DOMAIN queue : queue[k].url \in taken.seen \/ \E i \in DOMAIN rest : rest[i].url = queue[k].url
    <2> HIDE DEF rest
    <2> QED BY <1>3, <1>8
  <1> QED BY <1>1, <1>5, <1>9, <1>10, <1>11, <1>12 DEF taken

\* A crawl starts in order.
LEMMA CrawlFacts ==
  ASSUME NEW tool \in {"download", "network"}, NEW g \in Games, NEW entries \in SUBSET Urls,
         NEW hosts \in SUBSET Hosts, NEW runs \in SUBSET Runs,
         tool = "download" => "static" \in hosts, NEW d, NEW s
  PROVE  LET r == Crawl(tool, g, entries, hosts, runs) IN r \in Crawls /\ Walked(r) /\ Real(r, d, s)
  <1> DEFINE queue == Items(entries, "entry")
             first == Taken(queue, {})
             r == Crawl(tool, g, entries, hosts, runs)
  <1>1. /\ queue \in Seq(Asked)
        /\ \A n \in DOMAIN queue : queue[n] \in Looks("entry", entries)
        /\ \A u \in entries : \E n \in DOMAIN queue : queue[n] = Item(u, "entry")
    BY ItemsFacts DEF Origins
  <1>2. Ahead(queue, {}, entries)
    <2> HIDE DEF queue
    <2>1. \A n \in DOMAIN queue : queue[n].stage = "look" /\ queue[n].version = 0 /\ queue[n].from = "entry"
      BY <1>1 DEF Looks, Item
    <2>2. \A u \in entries : \E n \in DOMAIN queue : queue[n].url = u /\ queue[n].from = "entry"
      BY <1>1 DEF Item
    <2> QED BY <2>1, <2>2 DEF Ahead
  <1>3. /\ first.batch \in Seq(Asked) /\ Len(first.batch) <= Concurrency /\ first.queue \in Seq(Asked)
        /\ first.seen = {} \cup {first.batch[n].url : n \in DOMAIN first.batch} /\ first.seen \in SUBSET Urls
        /\ \A n \in DOMAIN first.batch :
              /\ first.batch[n].stage = "look" /\ first.batch[n].version = 0
              /\ first.batch[n].url \in entries => first.batch[n].from = "entry"
        /\ Ahead(first.queue, first.seen, entries)
    <2> HIDE DEF queue
    <2>1. {} \in SUBSET Urls
      OBVIOUS
    <2>2. /\ first.batch \in Seq(Asked) /\ Len(first.batch) <= Concurrency /\ first.queue \in Seq(Asked)
          /\ first.seen = {} \cup {first.batch[n].url : n \in DOMAIN first.batch} /\ first.seen \in SUBSET Urls
      BY <1>1, <1>2, <2>1, TakenAhead
    <2>3. /\ \A n \in DOMAIN first.batch :
              /\ first.batch[n].stage = "look" /\ first.batch[n].version = 0
              /\ first.batch[n].url \in entries => first.batch[n].from = "entry"
          /\ Ahead(first.queue, first.seen, entries)
      BY <1>1, <1>2, <2>1, TakenAhead
    <2> QED BY <2>2, <2>3
  <1> HIDE DEF first
  <1>4. r = [at |-> "crawl", tool |-> tool, game |-> g, entries |-> entries, hosts |-> hosts, runs |-> runs,
             batch |-> first.batch, queue |-> first.queue, seen |-> first.seen, files |-> {}, failed |-> {}]
    BY DEF Crawl, first
  <1> HIDE DEF r
  <1>5. r \in Crawls
    BY <1>3, <1>4 DEF Crawls
  <1>6. Walked(r)
    <2>1. \A u \in r.seen : Settled(r, u)
      BY <1>3, <1>4 DEF Settled
    <2>2. r.files = {} /\ r.failed = {} /\ r.at = "crawl" /\ r.tool = tool /\ r.hosts = hosts
          /\ r.batch = first.batch /\ r.queue = first.queue /\ r.seen = first.seen /\ r.entries = entries
      BY <1>4
    <2> QED BY <1>3, <2>1, <2>2 DEF Walked
  <1>7. Real(r, d, s)
    BY <1>3, <1>4 DEF Real
  <1> QED BY <1>5, <1>6, <1>7 DEF r

\* One request of a batch goes on, or ends with a result.
LEMMA ItemStep ==
  ASSUME NEW r \in Crawls, Walked(r), NEW d, NEW s, Real(r, d, s), r.at = "crawl",
         NEW i \in DOMAIN r.batch, r.batch[i].stage # "done",
         NEW e \in Asked, e.url = r.batch[i].url, e.from = r.batch[i].from,
         NEW files \in SUBSET File, NEW failed \in SUBSET FailedFile,
         r.files \subseteq files, r.failed \subseteq failed,
         \A f \in files \ r.files :
           /\ f.url = e.url /\ f.version = e.version /\ e.stage = "done" /\ f.version <= s[PathOf(f.url)] /\ d[PathOf(f.url)] # 0,
         \A x \in failed \ r.failed : x.url = e.url /\ x.from = e.from,
         e.stage = "done" =>
           Site[e.url].host \notin r.hosts \/ (\E f \in files : f.url = e.url) \/ (\E x \in failed : x.url = e.url),
         e.stage \in {"write", "done"} => e.version <= s[PathOf(e.url)],
         e.stage = "write" => e.version # 0, e.stage \in {"look", "fetch"} => e.version = 0
  PROVE  LET q == [r EXCEPT !.batch = [r.batch EXCEPT ![i] = e], !.files = files, !.failed = failed]
         IN  q \in Crawls /\ Walked(q) /\ Real(q, d, s)
  <1> DEFINE q == [r EXCEPT !.batch = [r.batch EXCEPT ![i] = e], !.files = files, !.failed = failed]
             batch == [r.batch EXCEPT ![i] = e]
  <1>1. /\ r = [at |-> r.at, tool |-> r.tool, game |-> r.game, entries |-> r.entries, hosts |-> r.hosts,
                runs |-> r.runs, batch |-> r.batch, queue |-> r.queue, seen |-> r.seen,
                files |-> r.files, failed |-> r.failed]
        /\ r.at \in {"crawl", "report"} /\ r.tool \in {"download", "network"} /\ r.game \in Games
        /\ r.entries \in SUBSET Urls /\ r.hosts \in SUBSET Hosts /\ r.runs \in SUBSET Runs
        /\ r.batch \in Seq(Asked) /\ r.queue \in Seq(Asked) /\ r.seen \in SUBSET Urls
    BY DEF Crawls
  <1>2. /\ batch \in Seq(Asked) /\ Len(batch) = Len(r.batch) /\ DOMAIN batch = DOMAIN r.batch
        /\ batch[i] = e /\ \A n \in DOMAIN batch : n # i => batch[n] = r.batch[n]
    BY <1>1, ExceptSeq, LenProperties
  <1> HIDE DEF batch
  <1>3. q = [r EXCEPT !.batch = batch, !.files = files, !.failed = failed]
    BY DEF batch
  <1> HIDE DEF q
  <1>4. q \in Crawls
    <2>1. batch \in Seq(Asked)
      BY <1>2
    <2> QED BY ONLY r \in Crawls, <1>3, <2>1, files \in SUBSET File, failed \in SUBSET FailedFile DEF Crawls
  <1>5. /\ q.at = r.at /\ q.tool = r.tool /\ q.entries = r.entries /\ q.hosts = r.hosts /\ q.batch = batch
        /\ q.queue = r.queue /\ q.seen = r.seen /\ q.files = files /\ q.failed = failed
    BY ONLY r \in Crawls, <1>3 DEF Crawls
  <1>6. \A u \in q.seen : Settled(q, u)
    <2> SUFFICES ASSUME NEW u \in r.seen
                 PROVE  Settled(q, u)
      BY <1>5
    <2>1. Settled(r, u)
      BY DEF Walked
    <2>2. CASE \E n \in DOMAIN r.batch : r.batch[n].url = u /\ r.batch[n].stage # "done"
      <3>1. PICK n \in DOMAIN r.batch : r.batch[n].url = u /\ r.batch[n].stage # "done"
        BY <2>2
      <3>2. CASE n # i
        BY <1>2, <1>5, <3>1, <3>2 DEF Settled
      <3>3. CASE n = i /\ e.stage # "done"
        BY <1>2, <1>5, <3>1, <3>3 DEF Settled
      <3>4. CASE n = i /\ e.stage = "done"
        BY <1>5, <3>1, <3>4 DEF Settled
      <3> QED BY <3>2, <3>3, <3>4
    <2> QED BY <1>5, <2>1, <2>2 DEF Settled
  <1>7. \A f \in q.files : Followed(q, f)
    <2> SUFFICES ASSUME NEW f \in files
                 PROVE  Followed(q, f)
      BY <1>5
    <2>1. CASE f \in r.files
      <3>1. Followed(r, f)
        BY <2>1 DEF Walked
      <3>2. \A n \in DOMAIN r.batch : r.batch[n].stage = "done" => n # i /\ batch[n] = r.batch[n]
        BY <1>2
      <3> SUFFICES ASSUME NEW u \in References(f.url, f.version, FALSE),
                          u \notin r.seen, ~\E k \in DOMAIN r.queue : r.queue[k].url = u
                   PROVE  \E n \in DOMAIN batch : batch[n].url = f.url /\ batch[n].stage = "done" /\ batch[n].version = f.version
        BY <1>5 DEF Followed
      <3>3. PICK n \in DOMAIN r.batch : r.batch[n].url = f.url /\ r.batch[n].stage = "done" /\ r.batch[n].version = f.version
        BY <3>1 DEF Followed
      <3> QED BY <1>2, <3>2, <3>3
    <2>2. CASE f \notin r.files
      BY <1>2, <1>5, <2>2 DEF Followed
    <2> QED BY <2>1, <2>2
  <1>8. Walked(q)
    <2>1. \A n \in DOMAIN batch : batch[n].url \in r.entries => batch[n].from = "entry"
      BY <1>2 DEF Walked
    <2>2. \A x \in failed : x.url \in r.entries => x.from = "entry"
      BY DEF Walked
    <2>3. /\ Len(r.batch) <= Concurrency /\ Ahead(r.queue, r.seen, r.entries)
          /\ r.tool = "download" => "static" \in r.hosts
      BY DEF Walked
    <2>4. r.at # "report"
      OBVIOUS
    <2> QED BY <1>2, <1>5, <1>6, <1>7, <2>1, <2>2, <2>3, <2>4 DEF Walked
  <1>9. Real(q, d, s)
    <2>1. \A f \in files : f.version <= s[PathOf(f.url)] /\ d[PathOf(f.url)] # 0
      BY DEF Real
    <2>2. \A n \in DOMAIN batch : batch[n].stage \in {"write", "done"} => batch[n].version <= s[PathOf(batch[n].url)]
      BY <1>2 DEF Real
    <2>3. \A n \in DOMAIN batch : batch[n].stage = "write" => batch[n].version # 0
      BY <1>2 DEF Real
    <2>4. \A n \in DOMAIN batch : batch[n].stage \in {"look", "fetch"} => batch[n].version = 0
      BY <1>2 DEF Real
    <2> QED BY <1>5, <2>1, <2>2, <2>3, <2>4 DEF Real
  <1> QED BY <1>4, <1>8, <1>9 DEF q

\* What a text names are URLs, and the more so while the provider says it is one.
LEMMA ReferencesFacts ==
  ASSUME NEW u \in Urls, NEW v \in Nat, v <= Len(Site[u].names), NEW fetched \in BOOLEAN
  PROVE  /\ References(u, v, fetched) \subseteq Urls
         /\ References(u, v, FALSE) \subseteq References(u, v, fetched)
  <1>1. CASE v < 1
    BY <1>1 DEF References
  <1>2. CASE ~(v < 1)
    <2>1. Site[u].names \in Seq(SUBSET [form : {"path", "bare", "up"}, to : Urls])
      BY ResourcesAssumption
    <2>2. v \in 1..Len(Site[u].names)
      BY <1>2, <2>1, LenProperties
    <2>3. Site[u].names[v] \subseteq [form : {"path", "bare", "up"}, to : Urls]
      BY <2>1, <2>2, ElementOfSeq
    <2>4. Extracted(u, v) \subseteq Urls
      BY <2>3 DEF Extracted
    <2> QED BY <2>4 DEF References
  <1> QED BY <1>1, <1>2

\* URLs to look at that were not taken.
Unasked(found, seen) ==
  \A k \in DOMAIN found : found[k].stage = "look" /\ found[k].version = 0 /\ found[k].url \notin seen

\* A queue in order stays so when what was not seen is put behind it.
LEMMA BehindFacts ==
  ASSUME NEW queue \in Seq(Asked), NEW found \in Seq(Asked), NEW seen, NEW entries,
         Ahead(queue, seen, entries), Unasked(found, seen)
  PROVE  /\ Behind(queue, found) \in Seq(Asked)
         /\ Ahead(Behind(queue, found), seen, entries)
         /\ \A k \in DOMAIN queue : \E i \in DOMAIN Behind(queue, found) : Behind(queue, found)[i] = queue[k]
         /\ \A k \in DOMAIN found : \E i \in DOMAIN Behind(queue, found) : Behind(queue, found)[i] = found[k]
  <1> USE DEF Unasked
  <1> DEFINE all == queue \o found
             a == Len(queue)
             b == Len(found)
  <1>1. /\ a \in Nat /\ DOMAIN queue = 1..a
        /\ b \in Nat /\ DOMAIN found = 1..b
    BY LenProperties
  <1>2. /\ all \in Seq(Asked) /\ Len(all) = a + b
        /\ \A k \in 1..(a + b) : all[k] = IF k <= a THEN queue[k] ELSE found[k - a]
    BY ConcatProperties
  <1>3. DOMAIN all = 1..(a + b)
    <2> HIDE DEF all, a, b
    <2> QED BY <1>2, LenProperties
  <1> HIDE DEF all, a, b
  <1>4. \A x, y \in Nat :
          /\ \A k \in 1..x : k \in 1..(x + y) /\ k <= x
          /\ \A k \in 1..y : x + k \in 1..(x + y) /\ ~(x + k <= x) /\ (x + k) - x = k
          /\ \A k \in 1..(x + y) : k \notin 1..x => ~(k <= x) /\ k - x \in 1..y /\ 1..x \subseteq 1..(k - 1)
    OBVIOUS
  <1>5. \A k \in DOMAIN queue : k \in DOMAIN all /\ all[k] = queue[k]
    BY ONLY <1>1, <1>2, <1>3, <1>4
  <1>6. \A k \in DOMAIN found : a + k \in DOMAIN all /\ all[a + k] = found[k]
    BY ONLY <1>1, <1>2, <1>3, <1>4
  <1>7. \A k \in DOMAIN all : k \notin DOMAIN queue =>
          k - a \in DOMAIN found /\ all[k] = found[k - a] /\ DOMAIN queue \subseteq 1..(k - 1)
    BY ONLY <1>1, <1>2, <1>3, <1>4
  <1>8. \A k \in DOMAIN all : all[k].stage = "look" /\ all[k].version = 0
    <2> TAKE k \in DOMAIN all
    <2>1. CASE k \in DOMAIN queue
      BY <1>5, <2>1 DEF Ahead
    <2>2. CASE k \notin DOMAIN queue
      BY <1>7, <2>2
    <2> QED BY <2>1, <2>2
  <1>9. ASSUME NEW u \in entries, u \notin seen
        PROVE  \E k \in DOMAIN queue : k \in DOMAIN all /\ all[k].url = u /\ all[k].from = "entry"
    <2>1. PICK k \in DOMAIN queue : queue[k].url = u /\ queue[k].from = "entry"
      BY <1>9 DEF Ahead
    <2> QED BY <1>5, <2>1
  <1>10. ASSUME NEW k \in DOMAIN all, all[k].url \in entries, all[k].from # "entry", all[k].url \notin seen
         PROVE  \E i \in 1..(k - 1) : all[i].url = all[k].url /\ all[i].from = "entry"
    <2>1. CASE k \in DOMAIN queue
      <3>1. all[k] = queue[k]
        BY <1>5, <2>1
      <3>2. PICK i \in 1..(k - 1) : queue[i].url = queue[k].url /\ queue[i].from = "entry"
        BY <1>10, <2>1, <3>1 DEF Ahead
      <3>3. i \in DOMAIN queue
        BY <1>1, <2>1
      <3> QED BY <1>5, <3>1, <3>2, <3>3
    <2>2. CASE k \notin DOMAIN queue
      <3>1. DOMAIN queue \subseteq 1..(k - 1)
        BY <1>7, <2>2
      <3> QED BY <1>9, <1>10, <3>1
    <2> QED BY <2>1, <2>2
  <1>11. Ahead(all, seen, entries)
    BY <1>8, <1>9, <1>10 DEF Ahead
  <1>12. Behind(queue, found) = all
    BY DEF Behind, all
  <1> QED BY <1>2, <1>5, <1>6, <1>11, <1>12

\* What the texts of a batch name.
Named(r, i) == Unseen(r.seen, References(r.batch[i].url, r.batch[i].version, r.batch[i].fetched))
FoundBy(r) == FlattenSeq([i \in DOMAIN r.batch |-> Items(Named(r, i), r.batch[i].url)])

\* It is queued, if it was not taken before, and nothing else.
LEMMA FoundFacts ==
  ASSUME NEW r \in Crawls, NEW d, NEW s, Real(r, d, s),
         \A u \in Urls : s[PathOf(u)] \in Nat /\ s[PathOf(u)] <= Len(Site[u].names),
         \A i \in DOMAIN r.batch : r.batch[i].stage = "done"
  PROVE  /\ FoundBy(r) \in Seq(Asked)
         /\ \A k \in DOMAIN FoundBy(r) : FoundBy(r)[k].stage = "look" /\ FoundBy(r)[k].version = 0 /\ FoundBy(r)[k].url \notin r.seen
         /\ \A i \in DOMAIN r.batch : \A u \in References(r.batch[i].url, r.batch[i].version, FALSE) :
              u \in r.seen \/ \E k \in DOMAIN FoundBy(r) : FoundBy(r)[k].url = u
  <1> DEFINE seqs == [i \in DOMAIN r.batch |-> Items(Named(r, i), r.batch[i].url)]
             found == FoundBy(r)
  <1>1. r.batch \in Seq(Asked)
    BY DEF Crawls
  <1>2. /\ DOMAIN r.batch = 1..Len(r.batch) /\ Len(r.batch) \in Nat
        /\ \A i \in DOMAIN r.batch : r.batch[i] \in Asked
    BY <1>1, LenProperties, ElementOfSeq
  <1>3. ASSUME NEW i \in DOMAIN r.batch
        PROVE  /\ r.batch[i].url \in Urls
               /\ References(r.batch[i].url, r.batch[i].version, r.batch[i].fetched) \subseteq Urls
               /\ References(r.batch[i].url, r.batch[i].version, FALSE)
                    \subseteq References(r.batch[i].url, r.batch[i].version, r.batch[i].fetched)
    <2>1. r.batch[i].url \in Urls /\ r.batch[i].version \in Nat /\ r.batch[i].fetched \in BOOLEAN
      BY <1>2 DEF Asked
    <2>2. r.batch[i].version <= s[PathOf(r.batch[i].url)]
      BY DEF Real
    <2>3. s[PathOf(r.batch[i].url)] \in Nat /\ s[PathOf(r.batch[i].url)] <= Len(Site[r.batch[i].url].names)
      BY <2>1
    <2>4. Len(Site[r.batch[i].url].names) \in Nat
      <3>1. Site[r.batch[i].url].names \in Seq(SUBSET [form : {"path", "bare", "up"}, to : Urls])
        BY <2>1, ResourcesAssumption
      <3> QED BY <3>1, LenProperties
    <2>5. r.batch[i].version <= Len(Site[r.batch[i].url].names)
      BY <2>1, <2>2, <2>3, <2>4
    <2> QED BY <2>1, <2>5, ReferencesFacts
  <1>4. ASSUME NEW i \in DOMAIN r.batch
        PROVE  /\ seqs[i] \in Seq(Asked)
               /\ \A n \in DOMAIN seqs[i] : seqs[i][n] \in Looks(r.batch[i].url, Named(r, i))
               /\ \A u \in Named(r, i) : \E n \in DOMAIN seqs[i] : seqs[i][n] = Item(u, r.batch[i].url)
    <2>1. Named(r, i) \in SUBSET Urls /\ r.batch[i].url \in Origins
      BY <1>3 DEF Named, Unseen, Origins
    <2>2. seqs[i] = Items(Named(r, i), r.batch[i].url)
      OBVIOUS
    <2> HIDE DEF seqs
    <2> QED BY <2>1, <2>2, ItemsFacts
  <1>5. seqs \in Seq(Seq(Asked)) /\ DOMAIN seqs = DOMAIN r.batch
    <2>1. DOMAIN seqs = DOMAIN r.batch /\ seqs = [i \in DOMAIN r.batch |-> seqs[i]]
      OBVIOUS
    <2> HIDE DEF seqs
    <2>2. seqs \in [1..Len(r.batch) -> Seq(Asked)]
      BY <1>2, <1>4, <2>1
    <2> QED BY <1>2, <2>1, <2>2, SeqDef
  <1>6. found = FlattenSeq(seqs)
    BY DEF FoundBy
  <1> HIDE DEF seqs, found
  <1>7. /\ found \in Seq(Asked)
        /\ \A k \in DOMAIN found : \E i \in DOMAIN r.batch : \E n \in DOMAIN seqs[i] : found[k] = seqs[i][n]
        /\ \A i \in DOMAIN r.batch : \A n \in DOMAIN seqs[i] : \E k \in DOMAIN found : found[k] = seqs[i][n]
    BY ONLY <1>5, <1>6, FlatFacts
  <1>8. ASSUME NEW k \in DOMAIN found
        PROVE  found[k].stage = "look" /\ found[k].version = 0 /\ found[k].url \notin r.seen
    <2>1. PICK i \in DOMAIN r.batch : \E n \in DOMAIN seqs[i] : found[k] = seqs[i][n]
      BY <1>7
    <2>2. PICK u \in Named(r, i) : found[k] = Item(u, r.batch[i].url)
      BY <1>4, <2>1 DEF Looks
    <2>3. u \notin r.seen
      BY <2>2 DEF Named, Unseen
    <2>4. found[k].stage = "look" /\ found[k].version = 0 /\ found[k].url = u
      BY ONLY <2>2 DEF Item
    <2> QED BY <2>3, <2>4
  <1>9. ASSUME NEW i \in DOMAIN r.batch, NEW u \in References(r.batch[i].url, r.batch[i].version, FALSE), u \notin r.seen
        PROVE  \E k \in DOMAIN found : found[k].url = u
    <2>1. u \in Named(r, i)
      BY <1>3, <1>9 DEF Named, Unseen
    <2>2. PICK n \in DOMAIN seqs[i] : seqs[i][n] = Item(u, r.batch[i].url)
      BY <1>4, <2>1
    <2>3. PICK k \in DOMAIN found : found[k] = seqs[i][n]
      BY <1>7
    <2>4. found[k].url = u
      BY ONLY <2>2, <2>3 DEF Item
    <2> QED BY <2>4
  <1> QED BY <1>7, <1>8, <1>9 DEF found

\* The requests a batch that is back leads to, and the step to the next batch.
Answers(r, found) ==
  /\ found \in Seq(Asked) /\ Unasked(found, r.seen)
  /\ \A i \in DOMAIN r.batch : \A u \in References(r.batch[i].url, r.batch[i].version, FALSE) :
       u \in r.seen \/ \E k \in DOMAIN found : found[k].url = u
Turned(r, found) ==
  LET next == Taken(Behind(r.queue, found), r.seen) IN
  [r EXCEPT !.batch = next.batch, !.queue = next.queue, !.seen = next.seen,
            !.at = IF next.batch = <<>> THEN "report" ELSE "crawl"]

\* A crawl stays in order when it turns to the next batch (resource-graph.ts, the loop).
LEMMA NextFacts ==
  ASSUME NEW r \in Crawls, Walked(r), r.at = "crawl", NEW d, NEW s, Real(r, d, s),
         \A i \in DOMAIN r.batch : r.batch[i].stage = "done", NEW found, Answers(r, found)
  PROVE  /\ Turned(r, found) \in Crawls /\ Walked(Turned(r, found)) /\ Real(Turned(r, found), d, s)
         /\ \A n \in DOMAIN Turned(r, found).batch : Turned(r, found).batch[n].url \notin r.seen
  <1>1. PICK next : next = Taken(Behind(r.queue, found), r.seen)
    OBVIOUS
  <1>2. PICK q : q = [r EXCEPT !.batch = next.batch, !.queue = next.queue, !.seen = next.seen,
                               !.at = IF next.batch = <<>> THEN "report" ELSE "crawl"]
    OBVIOUS
  <1>3. q = Turned(r, found)
    BY <1>1, <1>2 DEF Turned
  <1>4. /\ found \in Seq(Asked) /\ Unasked(found, r.seen)
        /\ \A i \in DOMAIN r.batch : \A u \in References(r.batch[i].url, r.batch[i].version, FALSE) :
             u \in r.seen \/ \E k \in DOMAIN found : found[k].url = u
    BY DEF Answers
  <1> DEFINE all == Behind(r.queue, found)
  <1>5. /\ r.batch \in Seq(Asked) /\ r.queue \in Seq(Asked) /\ r.seen \in SUBSET Urls /\ r.entries \in SUBSET Urls
        /\ r.files \in SUBSET File /\ r.failed \in SUBSET FailedFile
    BY DEF Crawls
  <1>6. Ahead(r.queue, r.seen, r.entries)
    BY DEF Walked
  <1>7. /\ all \in Seq(Asked)
        /\ Ahead(all, r.seen, r.entries)
        /\ \A k \in DOMAIN r.queue : \E i \in DOMAIN all : all[i] = r.queue[k]
        /\ \A k \in DOMAIN found : \E i \in DOMAIN all : all[i] = found[k]
    <2>1. r.queue \in Seq(Asked) /\ r.seen \in SUBSET Urls
      BY <1>5
    <2>2. found \in Seq(Asked) /\ Unasked(found, r.seen)
      BY <1>4
    <2> QED BY ONLY <1>6, <2>1, <2>2, BehindFacts
  <1>8. next = Taken(all, r.seen)
    BY <1>1
  <1> HIDE DEF all
  <1> DEFINE taken == Taken(all, r.seen)
  <1>9. /\ taken.batch \in Seq(Asked) /\ Len(taken.batch) <= Concurrency /\ taken.queue \in Seq(Asked)
        /\ taken.seen = r.seen \cup {taken.batch[n].url : n \in DOMAIN taken.batch} /\ taken.seen \in SUBSET Urls
        /\ \A n \in DOMAIN taken.batch :
             /\ taken.batch[n].stage = "look" /\ taken.batch[n].version = 0 /\ taken.batch[n].url \notin r.seen
             /\ taken.batch[n].url \in r.entries => taken.batch[n].from = "entry"
        /\ Ahead(taken.queue, taken.seen, r.entries)
        /\ \A k \in DOMAIN all :
             all[k].url \in taken.seen \/ \E i \in DOMAIN taken.queue : taken.queue[i].url = all[k].url
        /\ taken.batch = <<>> => taken.queue = <<>>
    <2>1. all \in Seq(Asked) /\ r.seen \in SUBSET Urls /\ Ahead(all, r.seen, r.entries)
      BY <1>5, <1>7
    <2> QED BY ONLY <2>1, TakenAhead
  <1>10. next = taken
    BY <1>8
  <1> HIDE DEF taken
  <1>11. /\ next.batch \in Seq(Asked) /\ Len(next.batch) <= Concurrency /\ next.queue \in Seq(Asked)
         /\ next.seen = r.seen \cup {next.batch[n].url : n \in DOMAIN next.batch} /\ next.seen \in SUBSET Urls
         /\ next.batch = <<>> => next.queue = <<>>
    BY ONLY <1>9, <1>10
  <1>12. /\ \A n \in DOMAIN next.batch :
              /\ next.batch[n].stage = "look" /\ next.batch[n].version = 0 /\ next.batch[n].url \notin r.seen
              /\ next.batch[n].url \in r.entries => next.batch[n].from = "entry"
         /\ Ahead(next.queue, next.seen, r.entries)
    BY ONLY <1>9, <1>10
  <1>13. \A k \in DOMAIN all :
           all[k].url \in next.seen \/ \E i \in DOMAIN next.queue : next.queue[i].url = all[k].url
    BY ONLY <1>9, <1>10
  <1> DEFINE at == IF next.batch = <<>> THEN "report" ELSE "crawl"
  <1>14. at \in {"crawl", "report"} /\ (at = "report" => next.batch = <<>> /\ next.queue = <<>>)
    BY <1>11
  <1>15. q = [r EXCEPT !.batch = next.batch, !.queue = next.queue, !.seen = next.seen, !.at = at]
    BY <1>2
  <1> HIDE DEF at
  <1>16. q \in Crawls
    BY ONLY r \in Crawls, <1>11, <1>14, <1>15 DEF Crawls
  <1>17. /\ q.at = at /\ q.tool = r.tool /\ q.entries = r.entries /\ q.hosts = r.hosts /\ q.batch = next.batch
         /\ q.queue = next.queue /\ q.seen = next.seen /\ q.files = r.files /\ q.failed = r.failed
    BY ONLY r \in Crawls, <1>15 DEF Crawls
  <1>18. ASSUME NEW u \in next.seen
         PROVE  Settled(q, u)
    <2>1. CASE u \in r.seen
      <3>1. Settled(r, u)
        BY <2>1 DEF Walked
      <3> QED BY <1>17, <3>1 DEF Settled
    <2>2. CASE u \notin r.seen
      <3>1. PICK n \in DOMAIN next.batch : next.batch[n].url = u
        BY <1>11, <2>2
      <3>2. next.batch[n].stage # "done"
        BY <1>12
      <3> QED BY ONLY <1>17, <3>1, <3>2 DEF Settled
    <2> QED BY <2>1, <2>2
  <1>19. ASSUME NEW f \in r.files, NEW u \in References(f.url, f.version, FALSE)
         PROVE  u \in next.seen \/ \E k \in DOMAIN next.queue : next.queue[k].url = u
    <2>1. Followed(r, f)
      BY DEF Walked
    <2>2. CASE u \in r.seen
      BY <1>11, <2>2
    <2>3. CASE \E k \in DOMAIN r.queue : r.queue[k].url = u
      <3>1. PICK k \in DOMAIN all : all[k].url = u
        BY <1>7, <2>3
      <3> QED BY <1>13, <3>1
    <2>4. CASE \E n \in DOMAIN r.batch : r.batch[n].url = f.url /\ r.batch[n].version = f.version
      <3>1. u \in r.seen \/ \E k \in DOMAIN found : found[k].url = u
        BY <1>4, <2>4
      <3>2. u \in r.seen \/ \E k \in DOMAIN all : all[k].url = u
        BY <1>7, <3>1
      <3> QED BY <1>11, <1>13, <3>2
    <2> QED BY <2>1, <2>2, <2>3, <2>4 DEF Followed
  <1>20. \A f \in r.files : Followed(q, f)
    BY ONLY <1>17, <1>19 DEF Followed
  <1>21. Walked(q)
    <2>1. /\ \A x \in r.failed : x.url \in r.entries => x.from = "entry"
          /\ r.tool = "download" => "static" \in r.hosts
      BY DEF Walked
    <2>2. \A n \in DOMAIN next.batch : next.batch[n].url \in r.entries => next.batch[n].from = "entry"
      BY <1>12
    <2> QED BY ONLY <1>11, <1>12, <1>14, <1>17, <1>18, <1>20, <2>1, <2>2 DEF Walked
  <1>22. Real(q, d, s)
    <2>1. \A n \in DOMAIN next.batch : next.batch[n].stage = "look" /\ next.batch[n].version = 0
      BY <1>12
    <2>2. \A f \in r.files : f.version <= s[PathOf(f.url)] /\ d[PathOf(f.url)] # 0
      BY DEF Real
    <2> QED BY ONLY <1>17, <2>1, <2>2 DEF Real
  <1>23. \A n \in DOMAIN q.batch : q.batch[n].url \notin r.seen
    BY <1>12, <1>17
  <1> QED BY ONLY <1>16, <1>21, <1>22, <1>3, <1>23

-----------------------------------------------------------------------------
(* Jobs, and the tree they share.                                          *)

Reports ==
  [made : {TRUE}, files : SUBSET File, failed : SUBSET FailedFile, unavailable : SUBSET FailedFile,
   entries : SUBSET Urls]
Matrices == [made : {TRUE}, loaded : SUBSET Urls, clean : SUBSET Runs, mirrorFailed : SUBSET FailedFile]
Audits == [at : {"audit"}, game : Games, download : Reports, matrix : Matrices]

\* A provider s and a tree d made of what it served.
Tree(d, s) ==
  /\ d \in [Paths -> Nat] /\ s \in [Paths -> Nat \ {0}]
  /\ \A p \in Paths : d[p] <= s[p]
  /\ \A u \in Urls : s[PathOf(u)] <= Len(Site[u].names)

\* A report lists files that were served, everything they name is in the tree
\* or accounted for, and no entry is excused.
Closed(report, d, s) ==
  /\ \A f \in report.files : f.version <= s[PathOf(f.url)]
  /\ \A f \in report.files : \A u \in References(f.url, f.version, FALSE) :
       Site[u].host = "static" =>
         d[PathOf(u)] # 0 \/ \E x \in report.failed \cup report.unavailable : x.url = u
  /\ {x.url : x \in report.unavailable} \cap report.entries = {}

InOrder(r, d, s) ==
  \/ r = NoJob
  \/ r \in Crawls /\ Walked(r) /\ Real(r, d, s)
  \/ r \in Audits /\ Closed(r.download, d, s)

AllInOrder(jobs, d, s) == jobs = [j \in Jobs |-> jobs[j]] /\ \A j \in Jobs : InOrder(jobs[j], d, s)

\* Files come to the tree and to the provider and do not go.
Grows(d, s, e, t) == \A p \in Paths : (d[p] # 0 => e[p] # 0) /\ s[p] <= t[p]

\* A report stays closed while the tree grows.
LEMMA ClosedStays ==
  ASSUME NEW report \in Reports, NEW d, NEW s, NEW e, NEW t, Tree(d, s), Tree(e, t), Grows(d, s, e, t),
         Closed(report, d, s)
  PROVE  Closed(report, e, t)
  <1>1. ASSUME NEW f \in report.files
        PROVE  /\ f.url \in Urls /\ f.version \in Nat /\ PathOf(f.url) \in Paths
               /\ f.version <= s[PathOf(f.url)] /\ f.version <= t[PathOf(f.url)]
    <2>1. f.url \in Urls /\ f.version \in Nat
      BY DEF Reports, File
    <2>2. PathOf(f.url) \in Paths
      BY <2>1 DEF Paths, PathOf
    <2>3. f.version <= s[PathOf(f.url)]
      BY DEF Closed
    <2>4. /\ s[PathOf(f.url)] \in Nat /\ t[PathOf(f.url)] \in Nat
          /\ s[PathOf(f.url)] <= t[PathOf(f.url)]
      BY <2>2 DEF Tree, Grows
    <2> QED BY <2>1, <2>2, <2>3, <2>4
  <1>2. ASSUME NEW f \in report.files, NEW u \in References(f.url, f.version, FALSE), Site[u].host = "static"
        PROVE  e[PathOf(u)] # 0 \/ \E x \in report.failed \cup report.unavailable : x.url = u
    <2>1. f.version <= Len(Site[f.url].names)
      <3>1. s[PathOf(f.url)] \in Nat /\ s[PathOf(f.url)] <= Len(Site[f.url].names)
        BY <1>1 DEF Tree
      <3>2. Len(Site[f.url].names) \in Nat
        <4>1. Site[f.url].names \in Seq(SUBSET [form : {"path", "bare", "up"}, to : Urls])
          BY <1>1, ResourcesAssumption
        <4> QED BY <4>1, LenProperties
      <3> QED BY <1>1, <3>1, <3>2
    <2>2. u \in Urls
      BY <1>1, <1>2, <2>1, ReferencesFacts
    <2>3. PathOf(u) \in Paths
      BY <2>2 DEF Paths, PathOf
    <2>4. d[PathOf(u)] # 0 \/ \E x \in report.failed \cup report.unavailable : x.url = u
      BY <1>2 DEF Closed
    <2> QED BY <2>3, <2>4 DEF Grows
  <1> QED BY <1>1, <1>2 DEF Closed

\* What a crawl has done stays real while the tree grows.
LEMMA RealStays ==
  ASSUME NEW r \in Crawls, NEW d, NEW s, NEW e, NEW t, Tree(d, s), Tree(e, t), Grows(d, s, e, t), Real(r, d, s)
  PROVE  Real(r, e, t)
  <1>1. \A u \in Urls : /\ PathOf(u) \in Paths
                        /\ s[PathOf(u)] \in Nat /\ t[PathOf(u)] \in Nat /\ s[PathOf(u)] <= t[PathOf(u)]
                        /\ d[PathOf(u)] # 0 => e[PathOf(u)] # 0
    BY DEF Paths, PathOf, Tree, Grows
  <1>2. \A f \in r.files : f.url \in Urls /\ f.version \in Nat
    BY DEF Crawls, File
  <1>3. \A n \in DOMAIN r.batch : r.batch[n].url \in Urls /\ r.batch[n].version \in Nat
    <2>1. r.batch \in Seq(Asked)
      BY DEF Crawls
    <2>2. \A n \in DOMAIN r.batch : r.batch[n] \in Asked
      BY <2>1, ElementOfSeq, LenProperties
    <2> QED BY <2>2 DEF Asked
  <1>4. \A f \in r.files : f.version <= s[PathOf(f.url)] /\ d[PathOf(f.url)] # 0
    BY DEF Real
  <1>5. \A n \in DOMAIN r.batch : r.batch[n].stage \in {"write", "done"} => r.batch[n].version <= s[PathOf(r.batch[n].url)]
    BY DEF Real
  <1>6. \A n \in DOMAIN r.batch : r.batch[n].stage = "write" => r.batch[n].version # 0
    BY DEF Real
  <1>7. \A f \in r.files : f.version <= t[PathOf(f.url)] /\ e[PathOf(f.url)] # 0
    BY ONLY <1>1, <1>2, <1>4
  <1>8. \A n \in DOMAIN r.batch : r.batch[n].stage \in {"write", "done"} => r.batch[n].version <= t[PathOf(r.batch[n].url)]
    BY ONLY <1>1, <1>3, <1>5
  <1>9. \A n \in DOMAIN r.batch : r.batch[n].stage \in {"look", "fetch"} => r.batch[n].version = 0
    BY DEF Real
  <1> QED BY <1>6, <1>7, <1>8, <1>9 DEF Real

\* When one process goes on, the others are not disturbed.
LEMMA OneGoesOn ==
  ASSUME NEW d, NEW s, NEW e, NEW t, Tree(d, s), Tree(e, t), Grows(d, s, e, t),
         NEW jobs, AllInOrder(jobs, d, s), NEW j \in Jobs, NEW r, InOrder(r, e, t)
  PROVE  AllInOrder([jobs EXCEPT ![j] = r], e, t)
  <1>1. ASSUME NEW i \in Jobs
        PROVE  InOrder(jobs[i], e, t)
    <2>1. InOrder(jobs[i], d, s)
      BY DEF AllInOrder
    <2>2. CASE jobs[i] = NoJob
      BY <2>2 DEF InOrder
    <2>3. CASE jobs[i] \in Crawls /\ Walked(jobs[i]) /\ Real(jobs[i], d, s)
      BY <2>3, RealStays DEF InOrder
    <2>4. CASE jobs[i] \in Audits /\ Closed(jobs[i].download, d, s)
      <3>1. jobs[i].download \in Reports
        BY <2>4 DEF Audits
      <3> QED BY <2>4, <3>1, ClosedStays DEF InOrder
    <2> QED BY <2>1, <2>2, <2>3, <2>4 DEF InOrder
  <1>2. jobs = [i \in Jobs |-> jobs[i]]
    BY DEF AllInOrder
  <1> DEFINE after == [jobs EXCEPT ![j] = r]
  <1>3. after = [i \in Jobs |-> after[i]] /\ \A i \in Jobs : after[i] = IF i = j THEN r ELSE jobs[i]
    BY <1>2
  <1> HIDE DEF after
  <1>4. AllInOrder(after, e, t)
    BY <1>1, <1>3 DEF AllInOrder
  <1> QED BY <1>4 DEF after

\* Which job is what.
LEMMA Kinds ==
  ASSUME NEW d, NEW s, AllInOrder(job, d, s), NEW j \in Jobs
  PROVE  /\ job[j].at \in {"idle", "crawl", "report", "audit"}
         /\ job[j].at = "idle" => job[j] = NoJob
         /\ job[j].at \in {"crawl", "report"} => job[j] \in Crawls /\ Walked(job[j]) /\ Real(job[j], d, s)
         /\ job[j].at = "audit" => job[j] \in Audits /\ Closed(job[j].download, d, s)
  <1>1. InOrder(job[j], d, s)
    BY DEF AllInOrder
  <1>2. NoJob.at = "idle"
    BY DEF NoJob
  <1>3. job[j] \in Crawls => job[j].at \in {"crawl", "report"}
    BY DEF Crawls
  <1>4. job[j] \in Audits => job[j].at = "audit"
    BY DEF Audits
  <1> QED BY <1>1, <1>2, <1>3, <1>4 DEF InOrder

\* A request of a crawl that is not over.
Underway(j, i, d, s) ==
  /\ job = [k \in Jobs |-> job[k]] /\ job[j] \in Crawls /\ Walked(job[j]) /\ Real(job[j], d, s)
  /\ job[j].at = "crawl" /\ i \in DOMAIN job[j].batch /\ job[j].batch[i].stage # "done"

\* Process j alone goes on, and is in order.
Follows(jobs, j, d, s) == \E q : jobs = [job EXCEPT ![j] = q] /\ InOrder(q, d, s)

\* A request that ends with a file.
LEMMA RecordedFacts ==
  ASSUME NEW j \in Jobs, NEW i, NEW d, NEW s, Underway(j, i, d, s), NEW v \in Nat \ {0}, NEW fetched \in BOOLEAN,
         v <= s[PathOf(job[j].batch[i].url)], d[PathOf(job[j].batch[i].url)] # 0
  PROVE  Follows(Recorded(j, i, v, fetched), j, d, s)
  <1> DEFINE r == job[j]
             item == job[j].batch[i]
             e == [item EXCEPT !.stage = "done", !.version = v, !.fetched = fetched]
             files == r.files \cup {[url |-> item.url, version |-> v]}
             failed == IF v \in Site[item.url].broken THEN r.failed \cup Failure(item, 0) ELSE r.failed
             q == [r EXCEPT !.batch = [r.batch EXCEPT ![i] = e], !.files = files, !.failed = failed]
  <1> USE DEF Underway
  <1>1. r.batch \in Seq(Asked) /\ r.files \in SUBSET File /\ r.failed \in SUBSET FailedFile
    BY DEF Crawls
  <1>2. item \in Asked
    BY <1>1, ElementOfSeq, LenProperties
  <1>3. e \in Asked /\ e.url = item.url /\ e.from = item.from /\ e.stage = "done" /\ e.version = v
    BY <1>2 DEF Asked
  <1>4. item.url \in Urls /\ item.from \in Origins
    BY <1>2 DEF Asked
  <1>5. files \in SUBSET File /\ failed \in SUBSET FailedFile
    BY <1>1, <1>4 DEF File, FailedFile, Failure
  <1>6. Recorded(j, i, v, fetched) = [job EXCEPT ![j] = q]
    BY DEF Recorded
  <1>7. /\ r.files \subseteq files /\ r.failed \subseteq failed
        /\ \A f \in files \ r.files : f = [url |-> item.url, version |-> v]
        /\ \A x \in failed \ r.failed : x.url = item.url /\ x.from = item.from
        /\ \E f \in files : f.url = item.url
    <2> HIDE DEF r, item
    <2>1. /\ r.files \subseteq files /\ \A f \in files \ r.files : f = [url |-> item.url, version |-> v]
          /\ [url |-> item.url, version |-> v] \in files
      OBVIOUS
    <2>2. r.failed \subseteq failed /\ \A x \in failed \ r.failed : x \in Failure(item, 0)
      OBVIOUS
    <2>3. \A x \in Failure(item, 0) : x.url = item.url /\ x.from = item.from
      BY DEF Failure
    <2> HIDE DEF files, failed
    <2> QED BY <2>1, <2>2, <2>3
  <1>8. /\ r \in Crawls /\ Walked(r) /\ Real(r, d, s) /\ r.at = "crawl" /\ i \in DOMAIN r.batch
        /\ r.batch[i].stage # "done" /\ item = r.batch[i] /\ v <= s[PathOf(item.url)] /\ d[PathOf(item.url)] # 0
    OBVIOUS
  <1> HIDE DEF e, files, failed, item, r
  <1>9. q \in Crawls /\ Walked(q) /\ Real(q, d, s)
    <2>1. \A f \in files \ r.files :
            /\ f.url = e.url /\ f.version = e.version /\ e.stage = "done" /\ f.version <= s[PathOf(f.url)]
            /\ d[PathOf(f.url)] # 0
      BY <1>8, <1>3, <1>7
    <2>2. /\ \A x \in failed \ r.failed : x.url = e.url /\ x.from = e.from
          /\ \E f \in files : f.url = e.url
          /\ e.url = r.batch[i].url /\ e.from = r.batch[i].from
          /\ e.version <= s[PathOf(e.url)] /\ e.stage \notin {"look", "fetch", "write"}
          /\ r.files \subseteq files /\ r.failed \subseteq failed
      BY <1>8, <1>3, <1>7
    <2> QED BY ONLY <1>8, <1>3, <1>5, <2>1, <2>2, ItemStep
  <1> HIDE DEF q
  <1> QED BY <1>6, <1>9 DEF InOrder, Follows

\* A request that ends without one.
LEMMA MissedFacts ==
  ASSUME NEW j \in Jobs, NEW i, NEW d, NEW s, Underway(j, i, d, s), NEW status \in Nat,
         job[j].batch[i].version <= s[PathOf(job[j].batch[i].url)]
  PROVE  Follows(Missed(j, i, status), j, d, s)
  <1> DEFINE r == job[j]
             item == job[j].batch[i]
             e == [item EXCEPT !.stage = "done"]
             failed == r.failed \cup Failure(item, status)
             q == [r EXCEPT !.batch = [r.batch EXCEPT ![i] = e], !.files = r.files, !.failed = failed]
  <1> USE DEF Underway
  <1>1. r.batch \in Seq(Asked) /\ r.files \in SUBSET File /\ r.failed \in SUBSET FailedFile
    BY DEF Crawls
  <1>2. item \in Asked
    BY <1>1, ElementOfSeq, LenProperties
  <1>3. e \in Asked /\ e.url = item.url /\ e.from = item.from /\ e.stage = "done" /\ e.version = item.version
    BY <1>2 DEF Asked
  <1>4. item.url \in Urls /\ item.from \in Origins
    BY <1>2 DEF Asked
  <1>5. failed \in SUBSET FailedFile
    BY <1>1, <1>4 DEF FailedFile, Failure
  <1>6. Missed(j, i, status) = [job EXCEPT ![j] = q]
    BY DEF Missed, Crawls
  <1>7. /\ r.failed \subseteq failed
        /\ \A x \in failed \ r.failed : x.url = item.url /\ x.from = item.from
        /\ \E x \in failed : x.url = item.url
    <2> HIDE DEF r, item
    <2>1. r.failed \subseteq failed /\ Failure(item, status) \subseteq failed
          /\ \A x \in failed \ r.failed : x \in Failure(item, status)
      OBVIOUS
    <2>2. /\ \A x \in Failure(item, status) : x.url = item.url /\ x.from = item.from
          /\ \E x \in Failure(item, status) : x.url = item.url
      BY DEF Failure
    <2> HIDE DEF failed
    <2> QED BY <2>1, <2>2
  <1> HIDE DEF e, failed
  <1>8. q \in Crawls /\ Walked(q) /\ Real(q, d, s)
    BY <1>1, <1>3, <1>5, <1>7, ItemStep
  <1> HIDE DEF q
  <1> QED BY <1>6, <1>8 DEF InOrder, Follows

\* A request that goes on, or turns out to be of no concern.
Advanced(j, i, stage, v) == [job EXCEPT ![j].batch[i].stage = stage, ![j].batch[i].version = v]

\* Such a request leaves its crawl in order.
LEMMA GoesOnFacts ==
  ASSUME NEW j \in Jobs, NEW i, NEW d, NEW s, Underway(j, i, d, s),
         NEW stage \in {"fetch", "write", "done"}, NEW v \in Nat,
         stage = "fetch" => v = 0, stage = "write" => v # 0, v <= s[PathOf(job[j].batch[i].url)],
         stage = "done" => Site[job[j].batch[i].url].host \notin job[j].hosts
  PROVE  Follows(Advanced(j, i, stage, v), j, d, s)
  <1> DEFINE r == job[j]
             item == job[j].batch[i]
             e == [item EXCEPT !.stage = stage, !.version = v]
             q == [r EXCEPT !.batch = [r.batch EXCEPT ![i] = e], !.files = r.files, !.failed = r.failed]
  <1> USE DEF Underway
  <1>1. r.batch \in Seq(Asked) /\ r.files \in SUBSET File /\ r.failed \in SUBSET FailedFile
    BY DEF Crawls
  <1>2. item \in Asked
    BY <1>1, ElementOfSeq, LenProperties
  <1>3. e \in Asked /\ e.url = item.url /\ e.from = item.from /\ e.stage = stage /\ e.version = v
    BY <1>2 DEF Asked
  <1>4. [job EXCEPT ![j].batch[i].stage = stage, ![j].batch[i].version = v] = [job EXCEPT ![j] = q]
    <2>1. q = [r EXCEPT !.batch = [r.batch EXCEPT ![i] = e]]
      <3> HIDE DEF r, e
      <3> QED BY DEF Crawls
    <2>2. [job EXCEPT ![j].batch[i].stage = stage, ![j].batch[i].version = v]
          = [job EXCEPT ![j] = [r EXCEPT !.batch = [r.batch EXCEPT ![i] = e]]]
      <3>1. [job EXCEPT ![j].batch[i].stage = stage]
            = [job EXCEPT ![j] = [r EXCEPT !.batch = [r.batch EXCEPT ![i] = [item EXCEPT !.stage = stage]]]]
        OBVIOUS
      <3> QED OBVIOUS
    <2> HIDE DEF q
    <2> QED BY <2>1, <2>2
  <1> HIDE DEF e
  <1>5. q \in Crawls /\ Walked(q) /\ Real(q, d, s)
    BY <1>1, <1>3, ItemStep
  <1> HIDE DEF q
  <1> QED BY <1>4, <1>5 DEF InOrder, Advanced, Follows

-----------------------------------------------------------------------------
(* The invariant.                                                          *)

ReportsInOrder ==
  /\ download \in [Games -> Reports \cup {NoReport}] /\ matrix \in [Games -> Matrices \cup {NoReport}]
  /\ \A g \in Games : download[g].made => Closed(download[g], disk, served)

Inv ==
  /\ Tree(disk, served) /\ AllInOrder(job, disk, served) /\ ReportsInOrder
  /\ faults \in 0..MaxFaults /\ started \in 0..MaxRuns

\* A batch that is back is followed by one of URLs that were not taken.
Fresh(r, q) ==
  r.at = "crawl" /\ q.at = "crawl" /\ (\A i \in DOMAIN r.batch : r.batch[i].stage = "done")
  => \A i \in DOMAIN q.batch : q.batch[i].stage = "look" => q.batch[i].url \notin r.seen

\* Process j goes on alone.
GoesOn(j) == \E q : job' = [job EXCEPT ![j] = q] /\ InOrder(q, disk', served') /\ Fresh(job[j], q)

\* Nothing runs at first, and nothing is in the tree.
LEMMA FirstInOrder == Init => Inv
  <1> SUFFICES ASSUME Init
               PROVE  Inv
    OBVIOUS
  <1> USE DEF Init
  <1>1. Tree(disk, served)
    <2>1. disk \in [Paths -> Nat] /\ served \in [Paths -> Nat \ {0}] /\ \A p \in Paths : disk[p] <= served[p]
      OBVIOUS
    <2>2. ASSUME NEW u \in Urls
          PROVE  served[PathOf(u)] <= Len(Site[u].names)
      <3>1. served[PathOf(u)] = 1
        BY DEF Paths, PathOf
      <3>2. Site[u].names \in Seq(SUBSET [form : {"path", "bare", "up"}, to : Urls]) /\ Site[u].names # <<>>
        BY ResourcesAssumption
      <3>3. Len(Site[u].names) \in Nat /\ Len(Site[u].names) # 0
        BY <3>2, LenProperties, EmptySeq
      <3> QED BY <3>1, <3>3
    <2> QED BY <2>1, <2>2 DEF Tree
  <1>2. AllInOrder(job, disk, served)
    BY DEF AllInOrder, InOrder
  <1>3. ReportsInOrder
    BY DEF ReportsInOrder, NoReport
  <1>4. faults \in 0..MaxFaults /\ started \in 0..MaxRuns
    BY ResourcesAssumption
  <1> QED BY <1>1, <1>2, <1>3, <1>4 DEF Inv

\* What is known of a request that is not over.
LEMMA RequestFacts ==
  ASSUME Inv, NEW j \in Jobs, job[j].at = "crawl", NEW i \in DOMAIN job[j].batch
  PROVE  /\ job[j] \in Crawls /\ Walked(job[j]) /\ Real(job[j], disk, served) /\ job = [k \in Jobs |-> job[k]]
         /\ job[j].batch[i] \in Asked /\ job[j].batch[i].url \in Urls /\ PathOf(job[j].batch[i].url) \in Paths
         /\ disk[PathOf(job[j].batch[i].url)] \in Nat /\ served[PathOf(job[j].batch[i].url)] \in Nat \ {0}
         /\ disk[PathOf(job[j].batch[i].url)] <= served[PathOf(job[j].batch[i].url)]
         /\ job[j].batch[i].stage \in {"look", "fetch"} => job[j].batch[i].version = 0
  <1>1. job[j] \in Crawls /\ Walked(job[j]) /\ Real(job[j], disk, served)
    BY Kinds DEF Inv
  <1>2. job[j].batch \in Seq(Asked)
    BY <1>1 DEF Crawls
  <1>3. job[j].batch[i] \in Asked
    BY <1>2, ElementOfSeq, LenProperties
  <1>4. job[j].batch[i].url \in Urls
    BY <1>3 DEF Asked
  <1>5. PathOf(job[j].batch[i].url) \in Paths
    BY <1>4 DEF Paths, PathOf
  <1>6. Tree(disk, served) /\ job = [k \in Jobs |-> job[k]]
    BY DEF Inv, AllInOrder
  <1>7. job[j].batch[i].stage \in {"look", "fetch"} => job[j].batch[i].version = 0
    BY <1>1 DEF Real
  <1> QED BY <1>1, <1>3, <1>4, <1>5, <1>6, <1>7 DEF Tree

\* Nothing of the tree or of the provider changes.
LEMMA SameTree == Inv /\ UNCHANGED <<disk, served>> => Tree(disk', served') /\ Grows(disk, served, disk', served')
  BY DEF Inv, Tree, Grows

\* processOne up to its request.
LEMMA LookGoesOn ==
  ASSUME Inv, NEW j \in Jobs, job[j].at = "crawl", NEW i \in DOMAIN job[j].batch, Look(j, i)
  PROVE  GoesOn(j)
  <1> DEFINE item == job[j].batch[i]
             p == PathOf(item.url)
             inside == Site[item.url].host \in job[j].hosts
  <1>1. item.stage = "look" /\ disk' = disk /\ served' = served
    BY DEF Look
  <1>2. /\ item.stage # "done" /\ item.version = 0 /\ served[p] \in Nat \ {0} /\ disk[p] \in Nat /\ disk[p] <= served[p]
        /\ item \in Asked
        /\ job[j] \in Crawls /\ Walked(job[j]) /\ Real(job[j], disk, served) /\ job = [k \in Jobs |-> job[k]]
    BY <1>1, RequestFacts
  <1>3. Underway(j, i, disk, served)
    BY <1>2 DEF Underway
  <1>4. item.version <= served[p]
    BY <1>2
  <1>5. \A q : Fresh(job[j], q)
    BY <1>2 DEF Fresh
  <1>6. CASE ~inside /\ item.from = "entry"
    <2>1. job' = Missed(j, i, 0)
      BY <1>6 DEF Look
    <2>2. Follows(Missed(j, i, 0), j, disk, served)
      BY <1>4, <1>3, MissedFacts
    <2> QED BY <1>1, <1>5, <2>1, <2>2 DEF GoesOn, Follows
  <1>7. CASE ~inside /\ item.from # "entry"
    <2>1. job' = [job EXCEPT ![j].batch[i].stage = "done"]
      BY <1>7 DEF Look
    <2>2. PICK v \in Nat : v = 0 /\ v <= served[PathOf(job[j].batch[i].url)]
      BY <1>2
    <2>3. [job EXCEPT ![j].batch[i].stage = "done"] = Advanced(j, i, "done", v)
      BY <1>2, <2>2 DEF Asked, Crawls, Advanced
    <2>4. Follows(Advanced(j, i, "done", v), j, disk, served)
      BY <1>7, <1>3, <2>2, GoesOnFacts
    <2> QED BY <1>1, <1>5, <2>1, <2>3, <2>4 DEF GoesOn, Follows
  <1>8. CASE inside /\ Existing(item.url)
    <2>1. PICK v \in Nat \ {0} : v = disk[p]
      BY <1>2, <1>8 DEF Existing
    <2>2. job' = Recorded(j, i, v, FALSE)
      BY <1>8, <2>1 DEF Look
    <2>3. v <= served[PathOf(job[j].batch[i].url)] /\ disk[PathOf(job[j].batch[i].url)] # 0 /\ FALSE \in BOOLEAN
      BY <1>2, <2>1
    <2>4. Follows(Recorded(j, i, v, FALSE), j, disk, served)
      BY <1>3, <2>3, RecordedFacts
    <2> QED BY <1>1, <1>5, <2>2, <2>4 DEF GoesOn, Follows
  <1>9. CASE inside /\ ~Existing(item.url)
    <2>1. job' = [job EXCEPT ![j].batch[i].stage = "fetch"]
      BY <1>9 DEF Look
    <2>2. PICK v \in Nat : v = 0 /\ v <= served[PathOf(job[j].batch[i].url)]
      BY <1>2
    <2>3. [job EXCEPT ![j].batch[i].stage = "fetch"] = Advanced(j, i, "fetch", v)
      BY <1>2, <2>2 DEF Asked, Crawls, Advanced
    <2>4. Follows(Advanced(j, i, "fetch", v), j, disk, served)
      BY <1>3, <2>2, GoesOnFacts
    <2> QED BY <1>1, <1>5, <2>1, <2>3, <2>4 DEF GoesOn, Follows
  <1> QED BY <1>6, <1>7, <1>8, <1>9

\* The request, answered or not.
LEMMA FetchGoesOn ==
  ASSUME Inv, NEW j \in Jobs, job[j].at = "crawl", NEW i \in DOMAIN job[j].batch, Fetch(j, i) \/ FetchFails(j, i)
  PROVE  GoesOn(j) /\ disk' = disk /\ served' = served
  <1> DEFINE item == job[j].batch[i]
             p == PathOf(item.url)
  <1>1. item.stage = "fetch" /\ disk' = disk /\ served' = served
    BY DEF Fetch, FetchFails, Beside
  <1>2. /\ item.stage # "done" /\ item.version = 0 /\ served[p] \in Nat \ {0} /\ item \in Asked
        /\ job[j] \in Crawls /\ Walked(job[j]) /\ Real(job[j], disk, served) /\ job = [k \in Jobs |-> job[k]]
    BY <1>1, RequestFacts
  <1>3. Underway(j, i, disk, served)
    BY <1>2 DEF Underway
  <1>4. item.version <= served[p] /\ served[p] <= served[p]
    BY <1>2
  <1>5. \A q : Fresh(job[j], q)
    BY <1>2 DEF Fresh
  <1>6. CASE Fetch(j, i)
    <2>1. PICK v \in Nat : v = served[p] /\ v # 0
      BY <1>2
    <2>2. job' = Advanced(j, i, "write", v)
      BY <1>6, <2>1 DEF Fetch, Advanced
    <2>3. v <= served[PathOf(job[j].batch[i].url)]
      BY <1>4, <2>1
    <2>4. Follows(Advanced(j, i, "write", v), j, disk, served)
      BY <1>3, <2>1, <2>3, GoesOnFacts
    <2> QED BY <1>1, <1>5, <2>2, <2>4 DEF GoesOn, Follows
  <1>7. CASE FetchFails(j, i)
    <2>1. PICK status \in Nat : job' = Missed(j, i, status)
      BY <1>7 DEF FetchFails
    <2>2. Follows(Missed(j, i, status), j, disk, served)
      BY <1>4, <1>3, MissedFacts
    <2> QED BY <1>1, <1>5, <2>1, <2>2 DEF GoesOn, Follows
  <1> QED BY <1>1, <1>6, <1>7

\* The file that was fetched takes its place in the tree.
LEMMA WriteGoesOn ==
  ASSUME Inv, NEW j \in Jobs, job[j].at = "crawl", NEW i \in DOMAIN job[j].batch, Write(j, i)
  PROVE  GoesOn(j) /\ Tree(disk', served') /\ Grows(disk, served, disk', served')
  <1> DEFINE r == job[j]
             item == r.batch[i]
             p == PathOf(item.url)
  <1>1. /\ item.stage = "write" /\ disk' = [disk EXCEPT ![p] = item.version] /\ served' = served
        /\ job' = Recorded(j, i, item.version, TRUE)
    BY DEF Write
  <1>2. /\ served[p] \in Nat \ {0} /\ item \in Asked /\ p \in Paths
        /\ r \in Crawls /\ Walked(r) /\ Real(r, disk, served) /\ job = [k \in Jobs |-> job[k]]
    BY RequestFacts
  <1>3. item.version \in Nat \ {0} /\ item.version <= served[p]
    BY <1>1, <1>2 DEF Real, Asked
  <1>4. Tree(disk, served)
    BY DEF Inv
  <1>5. \A q : Fresh(r, q)
    BY <1>1 DEF Fresh
  <1>6. i \in DOMAIN r.batch /\ r.at = "crawl" /\ item = r.batch[i]
    OBVIOUS
  <1> HIDE DEF p
  <1>7. Tree(disk', served')
    BY <1>1, <1>2, <1>3, <1>4 DEF Tree
  <1>8. Grows(disk, served, disk', served')
    BY <1>1, <1>2, <1>3, <1>4 DEF Tree, Grows
  <1>9. Real(r, disk', served')
    BY <1>2, <1>4, <1>7, <1>8, RealStays
  <1>10. disk'[p] # 0 /\ item.version <= served'[p]
    BY <1>1, <1>2, <1>3, <1>4 DEF Tree
  <1>11. Follows(Recorded(j, i, item.version, TRUE), j, disk', served')
    <2>1. PICK v \in Nat \ {0} : v = item.version
      BY <1>3
    <2>2. PICK d, s : d = disk' /\ s = served'
      OBVIOUS
    <2>3. d[PathOf(job[j].batch[i].url)] # 0 /\ v <= s[PathOf(job[j].batch[i].url)] /\ job[j].batch[i].stage # "done"
      BY <1>1, <1>10, <2>1, <2>2 DEF p
    <2>4. Follows(Recorded(j, i, v, TRUE), j, d, s)
      <3>1. Underway(j, i, d, s) /\ TRUE \in BOOLEAN
        BY <1>6, <1>2, <1>9, <2>2, <2>3 DEF Underway
      <3> QED BY <2>3, <3>1, RecordedFacts
    <2> QED BY <2>1, <2>2, <2>4
  <1> QED BY <1>1, <1>5, <1>7, <1>8, <1>11 DEF GoesOn, Follows

\* All requests of a batch are back.
LEMMA NextGoesOn ==
  ASSUME Inv, NEW j \in Jobs, NextBatch(j)
  PROVE  GoesOn(j)
  <1> DEFINE r == job[j]
             given == FlattenSeq([i \in DOMAIN r.batch |-> Found(j, r.batch[i])])
  <1>1. /\ r.at = "crawl" /\ \A i \in DOMAIN r.batch : r.batch[i].stage = "done"
        /\ disk' = disk /\ served' = served
    BY DEF NextBatch
  <1>2. r \in Crawls /\ Walked(r) /\ Real(r, disk, served)
    BY <1>1, Kinds DEF Inv
  <1>3. \A u \in Urls : served[PathOf(u)] \in Nat /\ served[PathOf(u)] <= Len(Site[u].names)
    BY DEF Inv, Tree, Paths, PathOf
  <1>4. given = FoundBy(r)
    BY DEF Found, FoundBy, Named
  <1>5. job' = [job EXCEPT ![j] = Turned(r, given)]
    <2>1. PICK found : found = given
      OBVIOUS
    <2>2. PICK next : next = Taken(Behind(r.queue, found), r.seen)
      OBVIOUS
    <2>3. job' = [job EXCEPT ![j].batch = next.batch, ![j].queue = next.queue, ![j].seen = next.seen,
                             ![j].at = IF next.batch = <<>> THEN "report" ELSE "crawl"]
      BY <2>1, <2>2 DEF NextBatch
    <2> HIDE DEF given
    <2> QED BY <2>1, <2>2, <2>3 DEF Turned
  <1> HIDE DEF given, r
  <1>6. PICK d, s : d = disk /\ s = served
    OBVIOUS
  <1>7. /\ r \in Crawls /\ Walked(r) /\ Real(r, d, s) /\ r.at = "crawl" /\ \A i \in DOMAIN r.batch : r.batch[i].stage = "done"
        /\ \A u \in Urls : s[PathOf(u)] \in Nat /\ s[PathOf(u)] <= Len(Site[u].names)
    BY <1>1, <1>2, <1>3, <1>6
  <1>8. Answers(r, given)
    <2>1. /\ FoundBy(r) \in Seq(Asked)
          /\ \A k \in DOMAIN FoundBy(r) :
               FoundBy(r)[k].stage = "look" /\ FoundBy(r)[k].version = 0 /\ FoundBy(r)[k].url \notin r.seen
      BY ONLY <1>7, FoundFacts
    <2>2. \A i \in DOMAIN r.batch : \A u \in References(r.batch[i].url, r.batch[i].version, FALSE) :
            u \in r.seen \/ \E k \in DOMAIN FoundBy(r) : FoundBy(r)[k].url = u
      BY ONLY <1>7, FoundFacts
    <2> QED BY ONLY <1>4, <2>1, <2>2 DEF Answers, Unasked
  <1>9. /\ Turned(r, given) \in Crawls /\ Walked(Turned(r, given)) /\ Real(Turned(r, given), d, s)
        /\ \A n \in DOMAIN Turned(r, given).batch : Turned(r, given).batch[n].url \notin r.seen
    BY ONLY <1>7, <1>8, NextFacts
  <1>10. InOrder(Turned(r, given), disk', served') /\ Fresh(r, Turned(r, given))
    BY <1>1, <1>6, <1>9 DEF InOrder, Fresh
  <1> QED BY <1>5, <1>10 DEF GoesOn, r

\* A process that is over, or dies.
LEMMA EndGoesOn ==
  ASSUME Inv, NEW j \in Jobs, Report(j) \/ CutReport(j) \/ Crash(j) \/ AuditEnds(j)
  PROVE  GoesOn(j) /\ disk' = disk /\ served' = served
  <1>1. job' = [job EXCEPT ![j] = NoJob] /\ disk' = disk /\ served' = served
    BY DEF Report, CutReport, Crash, AuditEnds
  <1>2. InOrder(NoJob, disk', served')
    BY DEF InOrder
  <1>3. Fresh(job[j], NoJob)
    BY DEF Fresh, NoJob
  <1> QED BY <1>1, <1>2, <1>3 DEF GoesOn

\* One that starts with what is in order.
LEMMA StartGoesOn ==
  ASSUME NEW j \in Jobs, NEW r, Started(j, r), InOrder(r, disk, served)
  PROVE  /\ GoesOn(j) /\ disk' = disk /\ served' = served /\ download' = download /\ matrix' = matrix
         /\ started < MaxRuns /\ started' = started + 1
  <1>1. /\ job' = [job EXCEPT ![j] = r] /\ disk' = disk /\ served' = served /\ job[j].at = "idle"
        /\ download' = download /\ matrix' = matrix /\ started < MaxRuns /\ started' = started + 1
    BY DEF Started
  <1>2. Fresh(job[j], r)
    BY <1>1 DEF Fresh
  <1> QED BY <1>1, <1>2 DEF GoesOn

\* What a report of a crawl says when nothing is left to ask for.
LEMMA CrawlCloses ==
  ASSUME NEW r \in Crawls, NEW d, NEW s, Walked(r), Real(r, d, s), r.at = "report", r.tool = "download",
         NEW report, NEW failed, failed = r.failed \ Unavailable(r.failed),
         report = [made |-> TRUE, files |-> r.files, failed |-> failed, unavailable |-> Unavailable(r.failed),
                   entries |-> r.entries]
  PROVE  report \in Reports /\ Closed(report, d, s)
  <1>1. r.files \in SUBSET File /\ r.failed \in SUBSET FailedFile /\ r.entries \in SUBSET Urls
    BY DEF Crawls
  <1>2. PICK excused : excused = Unavailable(r.failed)
    OBVIOUS
  <1>3. excused \subseteq r.failed /\ \A x \in excused : x.from # "entry"
    BY <1>2 DEF Unavailable
  <1>4. failed = r.failed \ excused
    BY <1>2
  <1>5. report = [made |-> TRUE, files |-> r.files, failed |-> failed, unavailable |-> excused, entries |-> r.entries]
    BY <1>2
  <1>6. report \in Reports
    BY ONLY <1>1, <1>3, <1>4, <1>5 DEF Reports
  <1>7. /\ \A f \in r.files : f.version <= s[PathOf(f.url)] /\ d[PathOf(f.url)] # 0
        /\ \A x \in r.failed : x.url \in r.entries => x.from = "entry"
        /\ r.batch = <<>> /\ r.queue = <<>> /\ "static" \in r.hosts
        /\ \A f \in r.files : Followed(r, f)
        /\ \A u \in r.seen : Settled(r, u)
    BY DEF Real, Walked
  <1>8. DOMAIN r.batch = {} /\ DOMAIN r.queue = {}
    BY <1>7
  <1>9. ASSUME NEW f \in r.files, NEW u \in References(f.url, f.version, FALSE), Site[u].host = "static"
        PROVE  d[PathOf(u)] # 0 \/ \E x \in failed \cup excused : x.url = u
    <2>1. u \in r.seen
      BY <1>7, <1>8 DEF Followed
    <2>2. (\E x \in r.files : x.url = u) \/ \E x \in r.failed : x.url = u
      BY <1>7, <1>8, <1>9, <2>1 DEF Settled
    <2> QED BY <1>4, <1>7, <2>2
  <1>10. {x.url : x \in excused} \cap r.entries = {}
    BY <1>3, <1>7
  <1>11. report.files = r.files /\ report.failed = failed /\ report.unavailable = excused /\ report.entries = r.entries
    BY ONLY <1>5
  <1> QED BY <1>6, <1>7, <1>9, <1>10, <1>11 DEF Closed

\* The reports stay what they are while the tree grows.
LEMMA ReportsStay ==
  ASSUME Inv, Tree(disk', served'), Grows(disk, served, disk', served'), UNCHANGED <<download, matrix>>
  PROVE  ReportsInOrder'
  <1>1. ASSUME NEW g \in Games, download[g].made
        PROVE  Closed(download[g], disk', served')
    <2>1. download[g] \in Reports
      BY <1>1 DEF Inv, ReportsInOrder, NoReport
    <2>2. Closed(download[g], disk, served) /\ Tree(disk, served)
      BY <1>1 DEF Inv, ReportsInOrder
    <2> QED BY <2>1, <2>2, ClosedStays
  <1> QED BY <1>1 DEF Inv, ReportsInOrder

\* The report of a crawl that is done is closed.
LEMMA ReportsGrow ==
  ASSUME Inv, NEW j \in Jobs, Report(j)
  PROVE  ReportsInOrder'
  <1> DEFINE r == job[j]
             g == r.game
             failed == r.failed \ Unavailable(r.failed)
             report == [made |-> TRUE, files |-> r.files, failed |-> failed, unavailable |-> Unavailable(r.failed),
                        entries |-> r.entries]
             result == [made |-> TRUE, loaded |-> r.entries, clean |-> r.runs, mirrorFailed |-> failed]
  <1>1. r.at = "report" /\ disk' = disk /\ served' = served
    BY DEF Report
  <1>2. r \in Crawls /\ Walked(r) /\ Real(r, disk, served)
    BY <1>1, Kinds DEF Inv
  <1>3. /\ download \in [Games -> Reports \cup {NoReport}] /\ matrix \in [Games -> Matrices \cup {NoReport}]
        /\ \A h \in Games : download[h].made => Closed(download[h], disk, served)
    BY DEF Inv, ReportsInOrder
  <1>4. CASE r.tool = "download"
    <2>1. download' = [download EXCEPT ![g] = report] /\ matrix' = matrix
      BY <1>4 DEF Report
    <2>2. report \in Reports /\ Closed(report, disk, served)
      <3> HIDE DEF r
      <3>1. PICK c, e : c = report /\ e = failed
        OBVIOUS
      <3>2. c \in Reports /\ Closed(c, disk, served)
        BY <1>1, <1>2, <1>4, <3>1, CrawlCloses
      <3> QED BY <3>1, <3>2
    <2> HIDE DEF report, r, g
    <2> QED BY <1>1, <1>3, <2>1, <2>2 DEF ReportsInOrder
  <1>5. CASE r.tool # "download"
    <2>1. matrix' = [matrix EXCEPT ![g] = result] /\ download' = download
      BY <1>5 DEF Report
    <2>2. failed \subseteq r.failed /\ r.failed \in SUBSET FailedFile /\ r.entries \in SUBSET Urls /\ r.runs \in SUBSET Runs
      BY <1>2 DEF Crawls
    <2>3. result \in Matrices
      <3> HIDE DEF failed, r
      <3> QED BY <2>2 DEF Matrices
    <2> HIDE DEF result, r, g
    <2> QED BY <1>1, <1>3, <2>1, <2>3 DEF ReportsInOrder
  <1> QED BY <1>4, <1>5

\* The cold starts of a matrix can be counted.
LEMMA RunsAreFinite == IsFiniteSet(Runs)
  <1> DEFINE Pairs == (Locales \cup {"en"}) \X (Profiles \cup {"desktop"})
  <1>1. IsFiniteSet(Locales \cup {"en"}) /\ IsFiniteSet(Profiles \cup {"desktop"})
    BY FS_AddElement, ResourcesAssumption
  <1>2. IsFiniteSet(Pairs)
    BY <1>1, FS_Product
  <1>3. Runs \in SUBSET Pairs
    BY DEF Runs
  <1> QED BY <1>2, <1>3, FS_Subset

\* The entries of a download are files of the provider.
LEMMA EntriesFacts ==
  ASSUME Inv, NEW g \in Games, NEW lost \in SUBSET TextOf[g]
  PROVE  /\ EntryOf[g] \cup Hinted(TextOf[g] \ lost) \cup ExistingUrls(g) \in SUBSET Urls
         /\ IsFiniteSet(lost)
  <1>1. TextOf[g] \subseteq Urls /\ EntryOf[g] \subseteq Urls /\ IsFiniteSet(Urls)
    BY ResourcesAssumption
  <1>2. ASSUME NEW u \in TextOf[g], NEW x \in Site[u].names[served[PathOf(u)]]
        PROVE  x.to \in Urls
    <2>1. u \in Urls /\ PathOf(u) \in Paths
      BY <1>1 DEF Paths, PathOf
    <2>2. Site[u].names \in Seq(SUBSET [form : {"path", "bare", "up"}, to : Urls])
      BY <2>1, ResourcesAssumption
    <2>3. served[PathOf(u)] \in Nat \ {0} /\ served[PathOf(u)] <= Len(Site[u].names)
      BY <2>1 DEF Inv, Tree
    <2>4. Len(Site[u].names) \in Nat
      BY <2>2, LenProperties
    <2>5. served[PathOf(u)] \in 1..Len(Site[u].names)
      BY <2>3, <2>4
    <2>6. Site[u].names[served[PathOf(u)]] \in SUBSET [form : {"path", "bare", "up"}, to : Urls]
      BY <2>2, <2>5, ElementOfSeq
    <2> QED BY <1>2, <2>6
  <1>3. Hinted(TextOf[g] \ lost) \subseteq Urls
    BY <1>2 DEF Hinted
  <1>4. ExistingUrls(g) \subseteq Urls
    BY DEF ExistingUrls
  <1>5. lost \in SUBSET Urls
    BY <1>1
  <1> QED BY <1>1, <1>3, <1>4, <1>5, FS_Subset

\* A crawl that starts is in order.
LEMMA CrawlInOrder ==
  ASSUME NEW tool \in {"download", "network"}, NEW g \in Games, NEW entries \in SUBSET Urls,
         NEW hosts \in SUBSET Hosts, NEW runs \in SUBSET Runs, tool = "download" => "static" \in hosts
  PROVE  InOrder(Crawl(tool, g, entries, hosts, runs), disk, served)
  <1>1. PICK d, s : d = disk /\ s = served
    OBVIOUS
  <1>2. LET r == Crawl(tool, g, entries, hosts, runs) IN r \in Crawls /\ Walked(r) /\ Real(r, d, s)
    BY CrawlFacts
  <1> QED BY <1>1, <1>2 DEF InOrder

\* A tool that starts has its counters in range.
Begins(j) ==
  /\ GoesOn(j) /\ disk' = disk /\ served' = served /\ download' = download /\ matrix' = matrix
  /\ faults' \in 0..MaxFaults /\ started' \in 0..MaxRuns

\* So it has when it starts in order.
LEMMA ToolBegins ==
  ASSUME Inv, NEW j \in Jobs, NEW r, Started(j, r), InOrder(r, disk, served), faults' \in 0..MaxFaults
  PROVE  Begins(j)
  <1>1. /\ GoesOn(j) /\ disk' = disk /\ served' = served /\ download' = download /\ matrix' = matrix
        /\ started < MaxRuns /\ started' = started + 1
    BY StartGoesOn
  <1>2. started' \in 0..MaxRuns
    BY <1>1, ResourcesAssumption DEF Inv
  <1> QED BY <1>1, <1>2 DEF Begins

\* downloadGameStatic.
LEMMA DownloadBegins ==
  ASSUME Inv, NEW j \in Jobs, NEW g \in Games, Download(j, g)
  PROVE  Begins(j)
  <1>1. PICK lost \in SUBSET TextOf[g] :
          LET entries == EntryOf[g] \cup Hinted(TextOf[g] \ lost) \cup ExistingUrls(g)
          IN  /\ faults + Cardinality(lost) <= MaxFaults /\ faults' = faults + Cardinality(lost)
              /\ Started(j, Crawl("download", g, entries, {Site[u].host : u \in entries}, {}))
    BY DEF Download
  <1> DEFINE urls == EntryOf[g] \cup Hinted(TextOf[g] \ lost) \cup ExistingUrls(g)
  <1>2. PICK entries, hosts : entries = urls /\ hosts = {Site[u].host : u \in urls}
    OBVIOUS
  <1>3. entries \in SUBSET Urls /\ IsFiniteSet(lost)
    BY <1>2, EntriesFacts
  <1>4. hosts \in SUBSET Hosts /\ "static" \in hosts
    <2>1. PICK u \in EntryOf[g] : Site[u].host = "static"
      BY ResourcesAssumption
    <2> QED BY <1>2, <1>3, <2>1 DEF Hosts
  <1>5. Started(j, Crawl("download", g, entries, hosts, {}))
    BY <1>1, <1>2
  <1>6. faults' \in 0..MaxFaults
    <2>1. Cardinality(lost) \in Nat
      BY <1>3, FS_CardinalityType
    <2>2. faults \in 0..MaxFaults /\ faults + Cardinality(lost) <= MaxFaults /\ faults' = faults + Cardinality(lost)
      BY <1>1 DEF Inv
    <2> QED BY <2>1, <2>2, ResourcesAssumption
  <1> HIDE DEF urls
  <1>7. InOrder(Crawl("download", g, entries, hosts, {}), disk, served)
    BY <1>3, <1>4, CrawlInOrder
  <1> QED BY <1>5, <1>6, <1>7, ToolBegins

\* captureNetworkMatrix.
LEMMA CaptureBegins ==
  ASSUME Inv, NEW j \in Jobs, NEW g \in Games, CaptureNetwork(j, g)
  PROVE  Begins(j)
  <1>1. PICK loaded \in Loads, failing \in SUBSET Runs :
          /\ faults + Cardinality(failing) <= MaxFaults /\ faults' = faults + Cardinality(failing)
          /\ Started(j, Crawl("network", g, loaded, {"static"}, Runs \ failing))
    BY DEF CaptureNetwork
  <1>2. loaded \in SUBSET Urls /\ {"static"} \in SUBSET Hosts /\ Runs \ failing \in SUBSET Runs
    BY ResourcesAssumption DEF Hosts
  <1>3. InOrder(Crawl("network", g, loaded, {"static"}, Runs \ failing), disk, served)
    BY <1>2, CrawlInOrder
  <1>4. faults' \in 0..MaxFaults
    <2>1. Cardinality(failing) \in Nat
      BY RunsAreFinite, FS_Subset, FS_CardinalityType
    <2>2. faults \in 0..MaxFaults /\ faults + Cardinality(failing) <= MaxFaults /\ faults' = faults + Cardinality(failing)
      BY <1>1 DEF Inv
    <2> QED BY <2>1, <2>2, ResourcesAssumption
  <1> QED BY <1>1, <1>3, <1>4, ToolBegins

\* capture-network.ts --mirror-only.
LEMMA MirrorBegins ==
  ASSUME Inv, NEW j \in Jobs, NEW g \in Games, Mirror(j, g)
  PROVE  Begins(j)
  <1>1. /\ matrix[g].made /\ faults' = faults
        /\ Started(j, Crawl("network", g, matrix[g].loaded, {"static"}, matrix[g].clean))
    BY DEF Mirror
  <1>2. matrix[g] \in Matrices
    BY <1>1 DEF Inv, ReportsInOrder, NoReport
  <1>3. matrix[g].loaded \in SUBSET Urls /\ {"static"} \in SUBSET Hosts /\ matrix[g].clean \in SUBSET Runs
    BY <1>2 DEF Matrices, Hosts
  <1>4. InOrder(Crawl("network", g, matrix[g].loaded, {"static"}, matrix[g].clean), disk, served)
    BY <1>3, CrawlInOrder
  <1>5. faults' \in 0..MaxFaults
    BY <1>1 DEF Inv
  <1> QED BY <1>1, <1>4, <1>5, ToolBegins

\* An audit takes two closed reports with it.
LEMMA AuditBegins ==
  ASSUME Inv, NEW j \in Jobs, NEW g \in Games, Audit(j, g)
  PROVE  Begins(j)
  <1> DEFINE r == [at |-> "audit", game |-> g, download |-> download[g], matrix |-> matrix[g]]
  <1>1. download[g].made /\ matrix[g].made /\ faults' = faults /\ Started(j, r)
    BY DEF Audit
  <1>2. download[g] \in Reports /\ Closed(download[g], disk, served) /\ matrix[g] \in Matrices
    BY <1>1 DEF Inv, ReportsInOrder, NoReport
  <1>3. InOrder(r, disk, served)
    <2>1. r \in Audits /\ r.download = download[g]
      BY <1>2 DEF Audits
    <2> QED BY <1>2, <2>1 DEF InOrder
  <1>4. faults' \in 0..MaxFaults
    BY <1>1 DEF Inv
  <1> HIDE DEF r
  <1> QED BY <1>1, <1>3, <1>4, ToolBegins

AllFresh == \A j \in Jobs : Fresh(job[j], job'[j])

\* A step of one process keeps the invariant, and the others where they are.
LEMMA OneStep ==
  ASSUME Inv, NEW j \in Jobs, GoesOn(j), Tree(disk', served'), Grows(disk, served, disk', served'),
         ReportsInOrder', faults' \in 0..MaxFaults, started' \in 0..MaxRuns
  PROVE  Inv' /\ AllFresh
  <1>1. PICK q : job' = [job EXCEPT ![j] = q] /\ InOrder(q, disk', served') /\ Fresh(job[j], q)
    BY DEF GoesOn
  <1>2. PICK d, s, e, t, jobs : d = disk /\ s = served /\ e = disk' /\ t = served' /\ jobs = job
    OBVIOUS
  <1>3. /\ Tree(d, s) /\ Tree(e, t) /\ Grows(d, s, e, t) /\ AllInOrder(jobs, d, s) /\ InOrder(q, e, t)
    BY <1>1, <1>2 DEF Inv
  <1>4. AllInOrder([jobs EXCEPT ![j] = q], e, t)
    BY <1>3, OneGoesOn
  <1>5. AllInOrder(job', disk', served')
    BY <1>1, <1>2, <1>4
  <1>6. Inv'
    BY <1>5 DEF Inv
  <1>7. ASSUME NEW i \in Jobs
        PROVE  Fresh(job[i], job'[i])
    <2>1. job = [k \in Jobs |-> job[k]]
      BY DEF Inv, AllInOrder
    <2>2. CASE i = j
      <3>1. job'[j] = q
        BY <1>1, <2>1
      <3> QED BY <1>1, <2>2, <3>1
    <2>3. CASE i # j
      <3>1. job'[i] = job[i]
        BY <1>1, <2>1, <2>3
      <3> QED BY <3>1 DEF Fresh
    <2> QED BY <2>2, <2>3
  <1> QED BY <1>6, <1>7 DEF AllFresh

\* A step that changes neither processes nor tree.
LEMMA NoStep ==
  ASSUME Inv, job' = job, Tree(disk', served'), Grows(disk, served, disk', served'), UNCHANGED <<download, matrix>>,
         faults' \in 0..MaxFaults, started' \in 0..MaxRuns
  PROVE  Inv' /\ AllFresh
  <1>1. ReportsInOrder'
    BY ReportsStay
  <1>2. PICK d, s, e, t, jobs : d = disk /\ s = served /\ e = disk' /\ t = served' /\ jobs = job
    OBVIOUS
  <1>3. Tree(d, s) /\ Tree(e, t) /\ Grows(d, s, e, t) /\ AllInOrder(jobs, d, s)
    BY <1>2 DEF Inv
  <1>4. ASSUME NEW j \in Jobs
        PROVE  InOrder(jobs[j], e, t)
    <2>1. InOrder(jobs[j], d, s)
      BY <1>3 DEF AllInOrder
    <2>2. jobs[j] \in Audits => jobs[j].download \in Reports
      BY DEF Audits
    <2> QED BY <1>3, <2>1, <2>2, RealStays, ClosedStays DEF InOrder
  <1>5. AllInOrder(jobs, e, t)
    BY <1>3, <1>4 DEF AllInOrder
  <1>6. Inv'
    BY <1>1, <1>2, <1>5 DEF Inv
  <1>7. AllFresh
    BY DEF AllFresh, Fresh
  <1> QED BY <1>6, <1>7

\* Every step keeps the invariant and asks for nothing twice.
LEMMA InvStep == Inv /\ [Next]_vars => Inv' /\ AllFresh
  <1> SUFFICES ASSUME Inv, [Next]_vars
               PROVE  Inv' /\ AllFresh
    OBVIOUS
  <1>1. faults \in 0..MaxFaults /\ started \in 0..MaxRuns
    BY DEF Inv
  <1>2. ASSUME NEW j \in Jobs, ProcessOne(j)
        PROVE  Inv' /\ AllFresh
    <2>1. PICK i \in DOMAIN job[j].batch : Look(j, i) \/ Fetch(j, i) \/ FetchFails(j, i) \/ Write(j, i)
      BY <1>2 DEF ProcessOne
    <2>2. job[j].at = "crawl"
      BY <1>2 DEF ProcessOne
    <2>3. /\ download' = download /\ matrix' = matrix /\ started' \in 0..MaxRuns /\ faults' \in 0..MaxFaults
      <3>1. download' = download /\ matrix' = matrix /\ started' = started
        BY <2>1 DEF Look, Fetch, FetchFails, Write
      <3>2. faults' = faults \/ (faults < MaxFaults /\ faults' = faults + 1)
        BY <2>1 DEF Look, Fetch, FetchFails, Write
      <3> QED BY <1>1, <3>1, <3>2, ResourcesAssumption
    <2>4. GoesOn(j) /\ Tree(disk', served') /\ Grows(disk, served, disk', served')
      <3>1. CASE Look(j, i)
        <4>1. disk' = disk /\ served' = served
          BY <3>1 DEF Look
        <4> QED BY <2>2, <3>1, <4>1, LookGoesOn, SameTree
      <3>2. CASE Fetch(j, i) \/ FetchFails(j, i)
        <4>1. GoesOn(j) /\ disk' = disk /\ served' = served
          BY <2>2, <3>2, FetchGoesOn
        <4> QED BY <4>1, SameTree
      <3>3. CASE Write(j, i)
        BY <2>2, <3>3, WriteGoesOn
      <3> QED BY <2>1, <3>1, <3>2, <3>3
    <2>5. ReportsInOrder'
      BY <2>3, <2>4, ReportsStay
    <2> QED BY <2>3, <2>4, <2>5, OneStep
  <1>3. ASSUME NEW j \in Jobs, NextBatch(j)
        PROVE  Inv' /\ AllFresh
    <2>1. UNCHANGED <<disk, served, download, matrix, faults, started>>
      BY <1>3 DEF NextBatch
    <2>2. GoesOn(j)
      BY <1>3, NextGoesOn
    <2>3. Tree(disk', served') /\ Grows(disk, served, disk', served')
      BY <2>1, SameTree
    <2>4. ReportsInOrder'
      BY <2>1, <2>3, ReportsStay
    <2> QED BY <1>1, <2>1, <2>2, <2>3, <2>4, OneStep
  <1>4. ASSUME NEW j \in Jobs, Report(j) \/ CutReport(j) \/ Crash(j) \/ AuditEnds(j)
        PROVE  Inv' /\ AllFresh
    <2>1. GoesOn(j) /\ disk' = disk /\ served' = served
      BY <1>4, EndGoesOn
    <2>2. Tree(disk', served') /\ Grows(disk, served, disk', served')
      BY <2>1, SameTree
    <2>3. started' \in 0..MaxRuns /\ faults' \in 0..MaxFaults
      BY <1>1, <1>4, ResourcesAssumption DEF Report, CutReport, Crash, AuditEnds, Mishap
    <2>4. ReportsInOrder'
      <3>1. CASE Report(j)
        BY <3>1, ReportsGrow
      <3>2. CASE CutReport(j)
        <4>1. download' = [download EXCEPT ![job[j].game] = NoReport] /\ matrix' = matrix
          BY <3>2 DEF CutReport
        <4>2. /\ download \in [Games -> Reports \cup {NoReport}] /\ matrix \in [Games -> Matrices \cup {NoReport}]
              /\ \A g \in Games : download[g].made => Closed(download[g], disk', served')
          BY <2>1 DEF Inv, ReportsInOrder
        <4>3. ~NoReport.made
          BY DEF NoReport
        <4> QED BY <4>1, <4>2, <4>3 DEF ReportsInOrder
      <3>3. CASE Crash(j) \/ AuditEnds(j)
        <4>1. download' = download /\ matrix' = matrix
          BY <3>3 DEF Crash, AuditEnds
        <4> QED BY <2>2, <4>1, ReportsStay
      <3> QED BY <1>4, <3>1, <3>2, <3>3
    <2> QED BY <2>1, <2>2, <2>3, <2>4, OneStep
  <1>5. ASSUME NEW j \in Jobs, NEW g \in Games, Download(j, g) \/ CaptureNetwork(j, g) \/ Mirror(j, g) \/ Audit(j, g)
        PROVE  Inv' /\ AllFresh
    <2>1. Begins(j)
      BY <1>5, DownloadBegins, CaptureBegins, MirrorBegins, AuditBegins
    <2>2. /\ GoesOn(j) /\ UNCHANGED <<disk, served, download, matrix>>
          /\ faults' \in 0..MaxFaults /\ started' \in 0..MaxRuns
      BY <2>1 DEF Begins
    <2>3. Tree(disk', served') /\ Grows(disk, served, disk', served')
      BY <2>2, SameTree
    <2>4. ReportsInOrder'
      BY <2>2, <2>3, ReportsStay
    <2> QED BY <2>2, <2>3, <2>4, OneStep
  <1>6. ASSUME NEW p \in Paths, Republish(p)
        PROVE  Inv' /\ AllFresh
    <2>1. /\ served' = [served EXCEPT ![p] = @ + 1] /\ UNCHANGED <<disk, job, download, matrix, faults, started>>
          /\ \A u \in Urls : PathOf(u) = p => served[p] + 1 \in DOMAIN Site[u].names
      BY <1>6 DEF Republish
    <2>2. Tree(disk, served)
      BY DEF Inv
    <2>3. served' \in [Paths -> Nat \ {0}]
      BY <2>1, <2>2 DEF Tree
    <2>4. \A o \in Paths : served[o] <= served'[o] /\ disk[o] <= served'[o]
      BY <2>1, <2>2 DEF Tree
    <2>5. ASSUME NEW u \in Urls
          PROVE  served'[PathOf(u)] <= Len(Site[u].names)
      <3>1. PathOf(u) \in Paths /\ served[PathOf(u)] <= Len(Site[u].names)
        BY <2>2 DEF Paths, PathOf, Tree
      <3>2. DOMAIN Site[u].names = 1..Len(Site[u].names) /\ Len(Site[u].names) \in Nat
        BY LenProperties, ResourcesAssumption
      <3>3. CASE PathOf(u) = p
        <4>1. served'[PathOf(u)] \in 1..Len(Site[u].names)
          BY <2>1, <2>2, <3>1, <3>2, <3>3 DEF Tree
        <4> QED BY <3>2, <4>1
      <3>4. CASE PathOf(u) # p
        <4>1. served'[PathOf(u)] = served[PathOf(u)]
          BY <2>1, <2>2, <3>1, <3>4 DEF Tree
        <4> QED BY <3>1, <4>1
      <3> QED BY <3>3, <3>4
    <2>6. Tree(disk', served') /\ Grows(disk, served, disk', served')
      BY <2>1, <2>2, <2>3, <2>4, <2>5 DEF Tree, Grows
    <2> QED BY <1>1, <2>1, <2>6, NoStep
  <1>7. CASE UNCHANGED vars
    <2>1. UNCHANGED <<disk, served, job, download, matrix, faults, started>>
      BY <1>7 DEF vars
    <2>2. Tree(disk', served') /\ Grows(disk, served, disk', served')
      BY <2>1, SameTree
    <2> QED BY <1>1, <2>1, <2>2, NoStep
  <1> QED BY <1>2, <1>3, <1>4, <1>5, <1>6, <1>7 DEF Next, JobStep

\* The invariant holds from the start on.
LEMMA InvHolds == Spec => []Inv
  <1>1. Init => Inv
    BY FirstInOrder
  <1>2. Inv /\ [Next]_vars => Inv'
    BY InvStep
  <1> QED BY <1>1, <1>2, PTL DEF Spec

-----------------------------------------------------------------------------
(* What the runs check.                                                    *)

\* Types: the tree holds whole versions the provider has or had, a crawl has as
\* many requests out as the code starts workers.
THEOREM CrawlTypes == Spec => []TypeOK
  <1>1. ASSUME Inv
        PROVE  TypeOK
    <2>1. \A p \in Paths : disk[p] \in {Torn} \cup 0..served[p]
      BY <1>1 DEF Inv, Tree
    <2>2. \A j \in Jobs : job[j].at \in {"idle", "crawl", "report", "audit"}
      BY <1>1, Kinds DEF Inv
    <2>3. ASSUME NEW j \in Jobs, job[j].at = "crawl"
          PROVE  /\ Len(job[j].batch) <= Concurrency /\ job[j].seen \subseteq Urls
                 /\ \A i \in DOMAIN job[j].batch : job[j].batch[i].stage \in {"look", "fetch", "write", "done"}
      <3>1. job[j] \in Crawls /\ Walked(job[j])
        BY <1>1, <2>3, Kinds DEF Inv
      <3>2. job[j].batch \in Seq(Asked) /\ job[j].seen \in SUBSET Urls
        BY <3>1 DEF Crawls
      <3>3. \A i \in DOMAIN job[j].batch : job[j].batch[i] \in Asked
        BY <3>2, ElementOfSeq, LenProperties
      <3> QED BY <3>1, <3>2, <3>3 DEF Walked, Asked
    <2> QED BY <1>1, <2>1, <2>2, <2>3 DEF Inv, TypeOK
  <1> QED BY <1>1, InvHolds, PTL

\* What a report of the downloader lists was served as it says, whoever wrote the
\* file and whatever died meanwhile.
THEOREM ReportsAreOfTheProvider == Spec => []RecordedIsServed
  <1>1. ASSUME Inv
        PROVE  RecordedIsServed
    <2> SUFFICES ASSUME NEW g \in Games, download[g].made, NEW f \in download[g].files
                 PROVE  f.version \in 1..served[PathOf(f.url)]
      BY DEF RecordedIsServed
    <2>1. download[g] \in Reports /\ Closed(download[g], disk, served) /\ Tree(disk, served)
      BY <1>1 DEF Inv, ReportsInOrder, NoReport
    <2>2. f.version \in Nat \ {0} /\ f.url \in Urls
      BY <2>1 DEF Reports, File
    <2>3. served[PathOf(f.url)] \in Nat
      BY <2>1, <2>2 DEF Tree, Paths, PathOf
    <2> QED BY <2>1, <2>2, <2>3 DEF Closed
  <1> QED BY <1>1, InvHolds, PTL

\* No entry of a game is excused because a pack lists it as well.
THEOREM EntriesAreNotExcused == Spec => []EntriesFailHard
  <1>1. ASSUME Inv
        PROVE  EntriesFailHard
    <2> SUFFICES ASSUME NEW g \in Games, download[g].made
                 PROVE  {f.url : f \in download[g].unavailable} \cap download[g].entries = {}
      BY DEF EntriesFailHard
    <2> QED BY <1>1 DEF Inv, ReportsInOrder, Closed
  <1> QED BY <1>1, InvHolds, PTL

\* A tree an audit calls complete serves its game.
THEOREM CompleteTreesServe == Spec => []CompleteServes
  <1>1. ASSUME Inv
        PROVE  CompleteServes
    <2> SUFFICES ASSUME NEW j \in Jobs, job[j].at = "audit", Complete(job[j]),
                        NEW f \in job[j].download.files,
                        NEW u \in References(f.url, disk[PathOf(f.url)], FALSE), Site[u].host = "static"
                 PROVE  disk[PathOf(u)] # 0 \/ \E x \in job[j].download.unavailable : x.url = u
      BY DEF CompleteServes
    <2>1. Closed(job[j].download, disk, served)
      BY <1>1, Kinds DEF Inv
    <2>2. disk[PathOf(f.url)] = f.version
      BY DEF Complete, HashMismatches
    <2>3. job[j].download.failed = {}
      BY DEF Complete, ClosureFailed
    <2> QED BY <2>1, <2>2, <2>3 DEF Closed
  <1> QED BY <1>1, InvHolds, PTL

\* A crawl takes no URL a second time, so it ends.
THEOREM CrawlsEnd == Spec => TakenOnce
  <1> DEFINE Once == \A j \in Jobs :
       /\ job[j].at = "crawl" /\ job'[j].at = "crawl"
       /\ \A i \in DOMAIN job[j].batch : job[j].batch[i].stage = "done"
       => \A i \in DOMAIN job'[j].batch : job'[j].batch[i].stage = "look" => job'[j].batch[i].url \notin job[j].seen
  <1>1. Inv /\ [Next]_vars => [Once]_vars
    <2>1. AllFresh => Once
      BY DEF AllFresh, Fresh
    <2> HIDE DEF Once
    <2> QED BY <2>1, InvStep
  <1> QED BY <1>1, InvHolds, PTL DEF Spec, TakenOnce

=============================================================================

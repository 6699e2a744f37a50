---------------------------- MODULE DualWriteProofs ----------------------------
(* Theorems about the rounds of a game on their way to the file of the     *)
(* server and to Mongo, for every number of threads, rounds and faults and *)
(* every size of the groups and buffers.                                   *)
EXTENDS DualWrite, SequenceTheorems, WellFoundedInduction, TLAPS

-----------------------------------------------------------------------------
(* What an append keeps of a batch.                                        *)

\* A set of natural numbers has a least one: how the two inductions over a
\* batch in FreshFacts are done.
LEMMA LeastNat ==
  ASSUME NEW T \in SUBSET Nat, T # {}
  PROVE  \E n \in T : \A m \in T : n <= m
  <1> DEFINE R == OpToRel(<, Nat)
  <1>1. IsWellFoundedOn(R, Nat)
    BY NatLessThanWellFounded
  <1>2. \A x, y \in Nat : x < y => <<x, y>> \in R
    BY DEF OpToRel
  <1> HIDE DEF R
  <1>3. PICK n \in T : \A m \in T : ~(<<m, n>> \in R)
    BY <1>1, WFMin
  <1>4. ASSUME NEW m \in T
        PROVE  n <= m
    <2>1. m \in Nat /\ n \in Nat
      OBVIOUS
    <2>2. ~(m < n)
      BY <1>2, <1>3, <2>1
    <2> QED BY <2>1, <2>2
  <1> QED BY <1>4

\* A sequence without repetition and a round it lacks.
LEMMA NotInRange ==
  ASSUME NEW s \in Seq(Rounds), NEW r \in Rounds, IsInjective(s), r \notin Range(s)
  PROVE  IsInjective(Append(s, r))
  BY AppendProperties DEF IsInjective, Range

\* The elements of a longer sequence.
LEMMA AppendedRange ==
  ASSUME NEW s \in Seq(Rounds), NEW r \in Rounds
  PROVE  Range(Append(s, r)) = Range(s) \cup {r}
  <1>1. Append(s, r) = s \o <<r>> /\ <<r>> \in Seq(Rounds)
    BY AppendIsConcat
  <1>2. Range(<<r>>) = {r}
    BY DEF Range
  <1>3. Range(s \o <<r>>) = Range(s) \cup Range(<<r>>)
    BY <1>1, RangeConcatenation
  <1> QED BY <1>1, <1>2, <1>3

\* What "append_batch" keeps of a batch: each round it does not know, once.
LEMMA FreshFacts ==
  ASSUME NEW batch \in Seq(Rounds)
  PROVE  /\ Fresh(batch) \in Seq(Rounds)
         /\ IsInjective(Fresh(batch))
         /\ Range(Fresh(batch)) = Range(batch) \ Hashes
  <1> DEFINE Kept(i, f) ==
        IF i = 0 THEN <<>>
        ELSE IF batch[i] \in Hashes \cup Range(f[i - 1]) THEN f[i - 1]
        ELSE Append(f[i - 1], batch[i])
  <1> DEFINE Graph(n, f) == f = [i \in 0..n |-> Kept(i, f)]
  <1> DEFINE Good(i, s) ==
        /\ s \in Seq(Rounds)
        /\ IsInjective(s)
        /\ Range(s) = {batch[k] : k \in 1..i} \ Hashes
  <1>1. \A n \in 0..Len(batch) : \E f : Graph(n, f)
    <2> DEFINE Wrong == {n \in 0..Len(batch) : ~\E f : Graph(n, f)}
    <2> SUFFICES ASSUME Wrong # {}
                 PROVE  FALSE
      OBVIOUS
    <2>1. Wrong \subseteq Nat
      OBVIOUS
    <2>2. PICK n \in Wrong : \A m \in Wrong : n <= m
      BY <2>1, LeastNat
    <2>3. n # 0
      <3> DEFINE f == [i \in 0..0 |-> <<>>]
      <3>1. f = [i \in 0..0 |-> Kept(i, f)]
        OBVIOUS
      <3> QED BY <3>1, <2>2
    <2>4. n - 1 \in 0..Len(batch) /\ n - 1 \notin Wrong
      <3>1. n - 1 \in 0..Len(batch) /\ ~(n <= n - 1)
        BY <2>1, <2>2, <2>3
      <3> HIDE DEF Wrong
      <3> QED BY <2>2, <3>1
    <2>5. PICK f : Graph(n - 1, f)
      BY <2>4
    <2> DEFINE g == [i \in 0..n |-> IF i = n THEN Kept(n, f) ELSE f[i]]
    <2>6. \A i \in 0..n : g[i] = Kept(i, g)
      <3> SUFFICES ASSUME NEW i \in 0..n
                   PROVE  g[i] = Kept(i, g)
        OBVIOUS
      <3>1. n \in Nat
        BY <2>1
      <3>2. CASE i = n
        <4>1. g[i - 1] = f[i - 1]
          BY <3>1, <3>2, <2>3
        <4> QED BY <3>1, <3>2, <4>1
      <3>3. CASE i # n
        <4>1. i \in 0..(n - 1) /\ g[i] = f[i]
          BY <3>1, <3>3
        <4>2. f[i] = Kept(i, f)
          BY <2>5, <4>1
        <4>3. i # 0 => g[i - 1] = f[i - 1]
          BY <3>1, <4>1
        <4> QED BY <4>1, <4>2, <4>3
      <3> QED BY <3>2, <3>3
    <2>7. Graph(n, g)
      BY <2>6
    <2> QED BY <2>2, <2>7
  <1> DEFINE kept == CHOOSE f : Graph(Len(batch), f)
  <1>2. Graph(Len(batch), kept)
    <2>1. Len(batch) \in 0..Len(batch)
      OBVIOUS
    <2> QED BY <1>1, <2>1
  <1>3. Fresh(batch) = kept[Len(batch)]
    BY DEF Fresh
  <1> HIDE DEF kept
  <1>4. \A i \in 0..Len(batch) : Good(i, kept[i])
    <2> DEFINE Wrong == {n \in 0..Len(batch) : ~Good(n, kept[n])}
    <2> SUFFICES ASSUME Wrong # {}
                 PROVE  FALSE
      OBVIOUS
    <2>1. Wrong \subseteq Nat
      OBVIOUS
    <2>2. PICK n \in Wrong : \A m \in Wrong : n <= m
      BY <2>1, LeastNat
    <2>3. kept[n] = Kept(n, kept) /\ n \in 0..Len(batch)
      BY <1>2, <2>2
    <2>4. n # 0
      <3>1. Good(0, <<>>)
        BY DEF IsInjective, Range
      <3> QED BY <2>2, <2>3, <3>1
    <2>5. Good(n - 1, kept[n - 1])
      <3>1. n - 1 \in 0..Len(batch) /\ ~(n <= n - 1)
        BY <2>1, <2>2, <2>3, <2>4
      <3>2. n - 1 \notin Wrong
        <4> HIDE DEF Wrong
        <4> QED BY <2>2, <3>1
      <3> QED BY <3>1, <3>2
    <2>6. batch[n] \in Rounds
      BY <2>3, <2>4, ElementOfSeq
    <2>7. {batch[k] : k \in 1..n} = {batch[k] : k \in 1..(n - 1)} \cup {batch[n]}
      BY <2>3, <2>4
    <2>8. Good(n, kept[n])
      <3>1. CASE batch[n] \in Hashes \cup Range(kept[n - 1])
        BY <2>3, <2>4, <2>5, <2>7, <3>1
      <3>2. CASE batch[n] \notin Hashes \cup Range(kept[n - 1])
        <4>1. kept[n] = Append(kept[n - 1], batch[n])
          BY <2>3, <2>4, <3>2
        <4>2. kept[n] \in Seq(Rounds) /\ IsInjective(kept[n])
          BY <2>5, <2>6, <3>2, <4>1, NotInRange, AppendProperties
        <4>3. Range(kept[n]) = Range(kept[n - 1]) \cup {batch[n]}
          BY <2>5, <2>6, <4>1, AppendedRange
        <4> QED BY <2>5, <2>7, <3>2, <4>2, <4>3
      <3> QED BY <3>1, <3>2
    <2> QED BY <2>2, <2>8
  <1>5. {batch[k] : k \in 1..Len(batch)} = Range(batch)
    BY RangeEquality
  <1>6. Good(Len(batch), kept[Len(batch)])
    <2>1. Len(batch) \in 0..Len(batch)
      OBVIOUS
    <2> HIDE DEF Good
    <2> QED BY <1>4, <2>1
  <1> QED BY <1>3, <1>5, <1>6

-----------------------------------------------------------------------------
(* The files of the server.                                                *)

\* A round the daemon or the index knows is in the file, or went down with the
\* host: the reason why a round that is skipped as known is not lost.
KnownIsThere ==
    /\ index # None => Range(index) \subseteq Range(lines) \cup lost
    /\ known # None => known \subseteq Range(lines) \cup lost

\* The batches in the hands of the threads hold complete rounds.
BatchesOK == docs \in [Threads -> Seq(Rounds)]

\* What a step of any part does to the files.
FilesNext ==
    \/ UNCHANGED fileVars
    \/ Start \/ Stop \/ Kill \/ Outage \/ SyncGame
    \/ \E t \in Threads : AppendBatch(docs[t]) \/ CutAppend(docs[t])

\* No other step writes a file, the cache or the counter of the daemon.
LEMMA FilesAreTouchedByThese ==
  ASSUME [Next]_vars
  PROVE  FilesNext
  <1>1. CASE ServerStep
    BY <1>1 DEF ServerStep, FilesNext
  <1>2. CASE \E t \in Threads, r \in Roles : Load(t, r)
    BY <1>2 DEF Load, FilesNext
  <1>3. CASE \E t \in Threads, r \in Rounds : Play(t, r)
    BY <1>3 DEF Play, FilesNext
  <1>4. ASSUME NEW t \in Threads,
               \/ Restore(t) \/ Connect(t) \/ WriteMongo(t) \/ LeaveCapture(t)
               \/ Audit(t) \/ Report(t) \/ Die(t) \/ TakeBack(t)
        PROVE  FilesNext
    BY <1>4 DEF Restore, Connect, WriteMongo, LeaveCapture, Audit, Report, Die,
                TakeBack, FilesNext
  <1>5. ASSUME NEW t \in Threads,
               Send(t) \/ SendEarly(t) \/ SendAgain(t) \/ SendRest(t) \/ Done(t)
        PROVE  FilesNext
    BY <1>5 DEF Send, SendEarly, SendAgain, SendRest, Sent, NotSent, Done, FilesNext
  <1>6. CASE UNCHANGED vars
    BY <1>6 DEF vars, FilesNext
  <1> QED BY <1>1, <1>2, <1>3, <1>4, <1>5, <1>6 DEF Next

\* Whichever of the two it reads, hashes() finds rounds.
LEMMA HashesFacts ==
  ASSUME FilesTypeOK
  PROVE  HashesFile \in Seq(Rounds) /\ Hashes \subseteq Rounds
  <1>1. HashesFile \in Seq(Rounds)
    BY DEF FilesTypeOK, HashesFile
  <1>2. Range(HashesFile) \subseteq Rounds
    BY <1>1, RangeOfSeq
  <1> QED BY <1>1, <1>2 DEF FilesTypeOK, Hashes

\* The rounds of a file to which a batch was appended.
LEMMA AppendedLines ==
  ASSUME FilesTypeOK, NEW batch \in Seq(Rounds)
  PROVE  /\ lines \o Fresh(batch) \in Seq(Rounds)
         /\ Len(lines \o Fresh(batch)) = Len(lines) + Len(Fresh(batch))
         /\ Len(lines) \in Nat /\ Len(Fresh(batch)) \in Nat
         /\ Fresh(batch) = <<>> <=> Len(Fresh(batch)) = 0
         /\ Range(lines \o Fresh(batch)) = Range(lines) \cup (Range(batch) \ Hashes)
         /\ HashesFile \o Fresh(batch) \in Seq(Rounds)
         /\ Range(HashesFile \o Fresh(batch)) =
              Range(HashesFile) \cup (Range(batch) \ Hashes)
  <1>1. Fresh(batch) \in Seq(Rounds) /\ Range(Fresh(batch)) = Range(batch) \ Hashes
    BY FreshFacts
  <1>2. lines \in Seq(Rounds) /\ HashesFile \in Seq(Rounds)
    BY HashesFacts DEF FilesTypeOK
  <1>3. /\ lines \o Fresh(batch) \in Seq(Rounds)
        /\ Len(lines \o Fresh(batch)) = Len(lines) + Len(Fresh(batch))
        /\ HashesFile \o Fresh(batch) \in Seq(Rounds)
    BY <1>1, <1>2, ConcatProperties
  <1>4. Len(lines) \in Nat /\ Len(Fresh(batch)) \in Nat
    BY <1>1, <1>2
  <1>5. Fresh(batch) = <<>> <=> Len(Fresh(batch)) = 0
    BY <1>1, EmptySeq
  <1>6. Range(lines \o Fresh(batch)) = Range(lines) \cup Range(Fresh(batch))
    BY <1>1, <1>2, RangeConcatenation
  <1>7. Range(HashesFile \o Fresh(batch)) = Range(HashesFile) \cup Range(Fresh(batch))
    BY <1>1, <1>2, RangeConcatenation
  <1> QED BY <1>1, <1>3, <1>4, <1>5, <1>6, <1>7

\* What is left of the two files when the host went down.
LEMMA OutageFacts ==
  ASSUME FilesTypeOK, Outage
  PROVE  /\ lines' \in Seq(Rounds)
         /\ durable' = Len(lines') /\ Len(lines') \in Nat
         /\ index' = None \/ index' \in Seq(Rounds)
         /\ index' # None => Range(index') \subseteq Range(HashesFile)
         /\ lost' = lost \cup (Range(lines) \ Range(lines'))
         /\ Range(lines) \subseteq Rounds
  <1>1. PICK n \in durable..(Len(lines) - 1) :
          lines' = SubSeq(lines, 1, n) /\ durable' = n
    BY DEF Outage
  <1>2. lines \in Seq(Rounds) /\ durable \in Nat /\ n \in Nat /\ n <= Len(lines)
    BY <1>1 DEF FilesTypeOK
  <1>3. \A i \in 1..n : lines[i] \in Rounds
    BY <1>2, ElementOfSeq
  <1>4. lines' \in Seq(Rounds) /\ Len(lines') = n
    BY <1>1, <1>2, <1>3, SubSeqProperties
  <1>5. /\ index' = None \/ index' \in Seq(Rounds)
        /\ index' # None => Range(index') \subseteq Range(HashesFile)
    <2>1. CASE index = None
      BY <2>1 DEF Outage
    <2>2. CASE index # None
      <3>1. PICK m \in 0..Len(index) : index' = SubSeq(index, 1, m)
        BY <2>2 DEF Outage
      <3>2. index \in Seq(Rounds)
        BY <2>2 DEF FilesTypeOK
      <3>3. \A i \in 1..m : index[i] \in Range(index) /\ index[i] \in Rounds
        BY <3>2, RangeEquality, ElementOfSeq
      <3>4. SubSeq(index, 1, m) \in Seq(Range(index))
        BY <3>3, SubSeqProperties
      <3>5. SubSeq(index, 1, m) \in Seq(Rounds)
        BY <3>3, SubSeqProperties
      <3>6. Range(index') \subseteq Range(index)
        BY <3>1, <3>4, RangeOfSeq
      <3> QED BY <2>2, <3>1, <3>5, <3>6 DEF HashesFile
    <2> QED BY <2>1, <2>2
  <1>6. Range(lines) \subseteq Rounds
    BY <1>2, RangeOfSeq
  <1> QED BY <1>1, <1>2, <1>4, <1>5, <1>6 DEF Outage

\* Every step on the files keeps their types.
LEMMA FilesTypesStep ==
  ASSUME FilesTypeOK, BatchesOK, FilesNext
  PROVE  FilesTypeOK'
  <1>0. FsyncEvery \in Nat \ {0} /\ MaxFaults \in Nat
    BY FilesAssumption
  <1>1. ASSUME UNCHANGED fileVars \/ Start \/ Stop \/ Kill \/ SyncGame
        PROVE  FilesTypeOK'
    <2>1. /\ lines' = lines /\ index' = index /\ lost' = lost /\ damaged' = damaged
          /\ known' \in {known, None} /\ faults' \in {faults, faults + 1}
          /\ up' \in BOOLEAN /\ unsynced' \in {0, unsynced}
      BY <1>1 DEF FilesTypeOK, fileVars, Start, Stop, Kill, Gone, SyncGame
    <2>2. durable' \in 0..Len(lines') /\ faults' \in 0..MaxFaults
      BY <1>0, <1>1 DEF FilesTypeOK, fileVars, Start, Stop, Kill, Gone, SyncGame
    <2>3. forgotten' \in BOOLEAN
      BY <1>1 DEF FilesTypeOK, fileVars, Start, Stop, Kill, Gone, SyncGame
    <2>4. ~up' => known' = None /\ unsynced' = 0
      BY <1>1 DEF FilesTypeOK, fileVars, Start, Stop, Kill, Gone, SyncGame
    <2> QED BY <1>0, <2>1, <2>2, <2>3, <2>4 DEF FilesTypeOK
  <1>2. CASE Outage
    <2>1. /\ lost' \subseteq Rounds
          /\ durable' \in 0..Len(lines')
      BY <1>2, OutageFacts DEF FilesTypeOK
    <2>2. /\ faults' \in 0..MaxFaults
          /\ up' = FALSE /\ known' = None /\ unsynced' = 0
          /\ unsynced' \in 0..(FsyncEvery - 1)
      BY <1>0, <1>2 DEF Outage, FilesTypeOK
    <2>3. forgotten' \in BOOLEAN /\ damaged' \in BOOLEAN
      <3>1. forgotten' = forgotten /\ damaged' = TRUE
        BY <1>2 DEF Outage
      <3>2. forgotten \in BOOLEAN
        BY DEF FilesTypeOK
      <3> QED BY <3>1, <3>2
    <2> QED BY <1>0, <1>2, <2>1, <2>2, <2>3, OutageFacts DEF FilesTypeOK
  <1>3. ASSUME NEW t \in Threads, AppendBatch(docs[t])
        PROVE  FilesTypeOK'
    <2> DEFINE fresh == Fresh(docs[t])
    <2>0. docs[t] \in Seq(Rounds)
      BY DEF BatchesOK
    <2>1. /\ lines \o fresh \in Seq(Rounds)
          /\ HashesFile \o fresh \in Seq(Rounds)
          /\ Len(lines \o fresh) = Len(lines) + Len(fresh)
          /\ Len(lines) \in Nat /\ Len(fresh) \in Nat
      BY <2>0, AppendedLines
    <2>2. Hashes \cup Range(fresh) \subseteq Rounds
      BY <2>0, FreshFacts, HashesFacts, RangeOfSeq
    <2>3. lines' = lines \o fresh /\ index' = HashesFile \o fresh
      BY <1>3 DEF AppendBatch
    <2> HIDE DEF fresh
    <2>4. /\ up' = up /\ faults' = faults /\ lost' = lost
          /\ forgotten' = forgotten /\ damaged' = damaged
      BY <1>3 DEF AppendBatch
    <2>5. /\ durable' \in 0..Len(lines')
          /\ unsynced' \in 0..(FsyncEvery - 1)
          /\ known' = None \/ known' \subseteq Rounds
          /\ ~up' => known' = None /\ unsynced' = 0
      <3>1. CASE up
        <4>1. known' = Hashes \cup Range(fresh) /\ Grouped(fresh)
          BY <1>3, <3>1 DEF AppendBatch, fresh
        <4>2. /\ durable' \in 0..Len(lines')
              /\ unsynced' \in 0..(FsyncEvery - 1)
          BY <1>0, <2>1, <2>3, <4>1 DEF Grouped, FilesTypeOK
        <4> QED BY <2>2, <2>4, <3>1, <4>1, <4>2
      <3>2. CASE ~up
        <4>1. /\ durable' = IF fresh = <<>> THEN durable ELSE Len(lines) + Len(fresh)
              /\ known' = known /\ unsynced' = unsynced
          BY <1>3, <3>2 DEF AppendBatch, fresh
        <4>2. durable' \in 0..Len(lines')
          BY <2>1, <2>3, <4>1 DEF FilesTypeOK
        <4> QED BY <2>4, <4>1, <4>2 DEF FilesTypeOK
      <3> QED BY <3>1, <3>2
    <2> QED BY <2>1, <2>3, <2>4, <2>5 DEF FilesTypeOK
  <1>4. ASSUME NEW t \in Threads, CutAppend(docs[t])
        PROVE  FilesTypeOK'
    <2> DEFINE fresh == Fresh(docs[t])
    <2>0. docs[t] \in Seq(Rounds)
      BY DEF BatchesOK
    <2>1. /\ lines \o fresh \in Seq(Rounds)
          /\ HashesFile \in Seq(Rounds)
          /\ Len(lines \o fresh) = Len(lines) + Len(fresh)
          /\ Len(lines) \in Nat /\ Len(fresh) \in Nat
      BY <2>0, AppendedLines, HashesFacts
    <2>2. lines' = lines \o fresh /\ index' = HashesFile /\ durable' = durable
      BY <1>4 DEF CutAppend
    <2> HIDE DEF fresh
    <2>3. /\ faults' \in 0..MaxFaults
          /\ up' = FALSE /\ known' = None /\ unsynced' = 0 /\ lost' = lost
          /\ forgotten' = TRUE /\ damaged' = TRUE
          /\ lost' \subseteq Rounds /\ unsynced' \in 0..(FsyncEvery - 1)
      BY <1>0, <1>4 DEF CutAppend, Gone, FilesTypeOK
    <2>4. durable' \in 0..Len(lines')
      BY <2>1, <2>2 DEF FilesTypeOK
    <2>5. lines' \in Seq(Rounds) /\ index' \in Seq(Rounds)
      BY <2>1, <2>2
    <2> QED BY <2>3, <2>4, <2>5 DEF FilesTypeOK
  <1> QED BY <1>1, <1>2, <1>3, <1>4 DEF FilesNext

\* What is known stays in the file or is lost, and nothing else leaves the file.
LEMMA KnownStep ==
  ASSUME FilesTypeOK, BatchesOK, KnownIsThere, FilesNext
  PROVE  /\ KnownIsThere'
         /\ Range(lines) \cup lost \subseteq Range(lines)' \cup lost'
  <1>0. /\ Range(HashesFile) \subseteq Range(lines) \cup lost
        /\ Hashes \subseteq Range(lines) \cup lost
    BY DEF KnownIsThere, HashesFile, Hashes
  <1>1. ASSUME UNCHANGED fileVars \/ Start \/ Stop \/ Kill \/ SyncGame
        PROVE  KnownIsThere' /\ lines' = lines /\ lost' = lost
    BY <1>1 DEF KnownIsThere, fileVars, Start, Stop, Kill, Gone, SyncGame
  <1>2. CASE Outage
    <2>1. Range(lines) \cup lost \subseteq Range(lines)' \cup lost'
      BY <1>2, OutageFacts
    <2>2. known' = None
      BY <1>2 DEF Outage
    <2>3. index' # None => Range(index)' \subseteq Range(HashesFile)
      BY <1>2, OutageFacts
    <2> QED BY <1>0, <2>1, <2>2, <2>3 DEF KnownIsThere
  <1>3. ASSUME NEW t \in Threads, AppendBatch(docs[t]) \/ CutAppend(docs[t])
        PROVE  /\ KnownIsThere'
               /\ Range(lines) \cup lost \subseteq Range(lines)' \cup lost'
    <2> DEFINE fresh == Fresh(docs[t])
    <2>0. docs[t] \in Seq(Rounds)
      BY DEF BatchesOK
    <2>1. /\ Range(lines \o fresh) = Range(lines) \cup (Range(docs[t]) \ Hashes)
          /\ Range(HashesFile \o fresh) = Range(HashesFile) \cup (Range(docs[t]) \ Hashes)
          /\ Range(fresh) = Range(docs[t]) \ Hashes
      BY <2>0, AppendedLines, FreshFacts
    <2>2. /\ lines' = lines \o fresh /\ lost' = lost
          /\ index' \in {HashesFile, HashesFile \o fresh}
          /\ known' \in {None, known, Hashes \cup Range(fresh)}
      BY <1>3 DEF AppendBatch, CutAppend, Gone
    <2> HIDE DEF fresh
    <2>3. Range(lines)' = Range(lines) \cup (Range(docs[t]) \ Hashes)
      BY <2>1, <2>2
    <2>4. Range(index)' \subseteq Range(lines)' \cup lost'
      BY <1>0, <2>1, <2>2, <2>3
    <2>5. known' # None => known' \subseteq Range(lines)' \cup lost'
      BY <1>0, <2>1, <2>2, <2>3 DEF KnownIsThere
    <2> QED BY <2>2, <2>3, <2>4, <2>5 DEF KnownIsThere
  <1> QED BY <1>1, <1>2, <1>3 DEF FilesNext

\* Every append, sync, stop and outage keeps the daemon's count exact.
LEMMA UnsyncedStep ==
  ASSUME FilesTypeOK, BatchesOK, UnsyncedIsExact, FilesNext
  PROVE  UnsyncedIsExact'
  <1>0. /\ FsyncEvery \in Nat \ {0}
        /\ Len(lines) \in Nat /\ durable \in Nat /\ unsynced \in Nat
        /\ durable <= Len(lines)
    BY FilesAssumption DEF FilesTypeOK
  <1>1. ASSUME UNCHANGED fileVars \/ Start \/ Stop \/ Kill \/ SyncGame
        PROVE  UnsyncedIsExact'
    BY <1>0, <1>1 DEF UnsyncedIsExact, FilesTypeOK, fileVars, Start, Stop, Kill, Gone, SyncGame
  <1>2. CASE Outage
    <2>1. durable' = Len(lines') /\ Len(lines') \in Nat /\ unsynced' = 0
      BY <1>2, OutageFacts DEF Outage
    <2> QED BY <2>1 DEF UnsyncedIsExact
  <1>3. ASSUME NEW t \in Threads, AppendBatch(docs[t])
        PROVE  UnsyncedIsExact'
    <2> DEFINE fresh == Fresh(docs[t])
    <2>0. docs[t] \in Seq(Rounds)
      BY DEF BatchesOK
    <2>1. /\ Len(lines \o fresh) = Len(lines) + Len(fresh)
          /\ Len(fresh) \in Nat
          /\ fresh = <<>> <=> Len(fresh) = 0
      BY <2>0, AppendedLines
    <2>2. lines' = lines \o fresh /\ forgotten' = forgotten
      BY <1>3 DEF AppendBatch
    <2>3. CASE up
      <3>1. Grouped(fresh)
        BY <1>3, <2>3 DEF AppendBatch
      <3>2. /\ unsynced' = IF unsynced + Len(fresh) >= FsyncEvery
                             THEN 0 ELSE unsynced + Len(fresh)
            /\ durable' = IF unsynced + Len(fresh) >= FsyncEvery
                            THEN Len(lines) + Len(fresh) ELSE durable
        BY <3>1 DEF Grouped
      <3> HIDE DEF fresh
      <3>3. CASE unsynced + Len(fresh) >= FsyncEvery
        BY <1>0, <2>1, <2>2, <3>2, <3>3 DEF UnsyncedIsExact
      <3>4. CASE ~(unsynced + Len(fresh) >= FsyncEvery)
        <4>1. unsynced' = unsynced + Len(fresh) /\ durable' = durable
          BY <3>2, <3>4
        <4>2. Len(lines') = Len(lines) + Len(fresh)
          BY <2>1, <2>2
        <4>3. ~forgotten' => Len(lines) - durable = unsynced
          BY <2>2 DEF UnsyncedIsExact
        <4> QED BY <1>0, <2>1, <4>1, <4>2, <4>3 DEF UnsyncedIsExact
      <3> QED BY <3>3, <3>4
    <2>4. CASE ~up
      <3>1. /\ durable' = IF fresh = <<>> THEN durable ELSE Len(lines) + Len(fresh)
            /\ unsynced' = 0 /\ unsynced = 0
        BY <1>3, <2>4 DEF AppendBatch, FilesTypeOK
      <3> HIDE DEF fresh
      <3> QED BY <1>0, <2>1, <2>2, <3>1 DEF UnsyncedIsExact
    <2> QED BY <2>3, <2>4
  <1>4. ASSUME NEW t \in Threads, CutAppend(docs[t])
        PROVE  UnsyncedIsExact'
    BY <1>4 DEF CutAppend, UnsyncedIsExact
  <1> QED BY <1>1, <1>2, <1>3, <1>4 DEF FilesNext

\* Two sequences without repetition that share nothing.
LEMMA InjectiveConcat ==
  ASSUME NEW s \in Seq(Rounds), NEW u \in Seq(Rounds),
         IsInjective(s), IsInjective(u), Range(s) \cap Range(u) = {}
  PROVE  IsInjective(s \o u)
  <1>1. /\ DOMAIN (s \o u) = 1..(Len(s) + Len(u))
        /\ \A i \in 1..(Len(s) + Len(u)) :
             (s \o u)[i] = IF i <= Len(s) THEN s[i] ELSE u[i - Len(s)]
        /\ Len(s) \in Nat /\ Len(u) \in Nat
        /\ DOMAIN s = 1..Len(s) /\ DOMAIN u = 1..Len(u)
    BY ConcatProperties
  <1>2. \A i \in 1..Len(s), j \in 1..Len(u) : s[i] # u[j]
    BY <1>1 DEF Range
  <1> SUFFICES ASSUME NEW i \in 1..(Len(s) + Len(u)), NEW j \in 1..(Len(s) + Len(u)),
                      (s \o u)[i] = (s \o u)[j]
               PROVE  i = j
    BY <1>1 DEF IsInjective
  <1>3. CASE i <= Len(s) /\ j <= Len(s)
    BY <1>1, <1>3 DEF IsInjective
  <1>4. CASE i > Len(s) /\ j > Len(s)
    <2>1. i - Len(s) \in 1..Len(u) /\ j - Len(s) \in 1..Len(u)
      BY <1>1, <1>4
    <2>2. u[i - Len(s)] = u[j - Len(s)]
      BY <1>1, <1>4
    <2>3. i - Len(s) = j - Len(s)
      BY <1>1, <2>1, <2>2 DEF IsInjective
    <2> QED BY <1>1, <2>3
  <1>5. CASE i <= Len(s) /\ j > Len(s)
    <2>1. j - Len(s) \in 1..Len(u) /\ i \in 1..Len(s)
      BY <1>1, <1>5
    <2> QED BY <1>1, <1>2, <1>5, <2>1
  <1>6. CASE i > Len(s) /\ j <= Len(s)
    <2>1. i - Len(s) \in 1..Len(u) /\ j \in 1..Len(s)
      BY <1>1, <1>6
    <2> QED BY <1>1, <1>2, <1>6, <2>1
  <1> QED BY <1>1, <1>3, <1>4, <1>5, <1>6

\* Every append writes the same new rounds to both files.
LEMMA IndexStep ==
  ASSUME FilesTypeOK, BatchesOK, IndexMatchesLines, FilesNext
  PROVE  IndexMatchesLines'
  <1>1. ASSUME UNCHANGED fileVars \/ Start \/ Stop \/ Kill \/ SyncGame
        PROVE  IndexMatchesLines'
    BY <1>1 DEF IndexMatchesLines, fileVars, Start, Stop, Kill, Gone, SyncGame
  <1>2. ASSUME Outage \/ \E t \in Threads : CutAppend(docs[t])
        PROVE  IndexMatchesLines'
    BY <1>2 DEF IndexMatchesLines, Outage, CutAppend
  <1>3. ASSUME NEW t \in Threads, AppendBatch(docs[t]), ~damaged'
        PROVE  /\ IsInjective(lines)'
               /\ index' = lines'
               /\ known' # None => known' = Range(lines)'
    <2> DEFINE fresh == Fresh(docs[t])
    <2>0. docs[t] \in Seq(Rounds) /\ lines \in Seq(Rounds)
      BY DEF BatchesOK, FilesTypeOK
    <2>1. ~damaged /\ lines' = lines \o fresh /\ index' = HashesFile \o fresh
      BY <1>3 DEF AppendBatch
    <2>2. IsInjective(lines) /\ HashesFile = lines /\ Hashes = Range(lines)
      BY <2>1 DEF IndexMatchesLines, HashesFile, Hashes
    <2>3. /\ fresh \in Seq(Rounds) /\ IsInjective(fresh)
          /\ Range(fresh) = Range(docs[t]) \ Hashes
          /\ Range(lines \o fresh) = Range(lines) \cup (Range(docs[t]) \ Hashes)
      BY <2>0, FreshFacts, AppendedLines
    <2>4. known' = Hashes \cup Range(fresh) \/ (~up /\ known' = known)
      BY <1>3 DEF AppendBatch
    <2>5. ~up => known = None
      BY DEF FilesTypeOK
    <2> HIDE DEF fresh
    <2>6. IsInjective(lines \o fresh)
      BY <2>0, <2>2, <2>3, InjectiveConcat
    <2> QED BY <2>1, <2>2, <2>3, <2>4, <2>5, <2>6
  <1> QED BY <1>1, <1>2, <1>3 DEF FilesNext, IndexMatchesLines

-----------------------------------------------------------------------------
(* The threads.                                                            *)

\* The variables of the threads have their types.
ThreadTypes ==
    /\ phase \in [Threads -> Phases]
    /\ role \in [Threads -> Roles \cup {"none"}]
    /\ lease \in [Threads -> Roles \cup {"none"}]
    /\ size \in [Threads -> Nat]
    /\ local \in [Threads -> Seq(Rounds)]
    /\ BatchesOK
    /\ buf \in [Threads -> SUBSET Rounds]
    /\ passed \in [Threads -> BOOLEAN]
    /\ mongo \subseteq Rounds
    /\ accepted \subseteq Rounds
    /\ granted \in 0..MaxLeases

\* The part of BuffersCover about one thread.
Covered(t) ==
    /\ Range(local[t]) \subseteq Range(lines) \cup lost \cup Range(docs[t])
    /\ {local[t][i] : i \in (size[t] + 1)..Len(local[t])} \subseteq mongo \cup buf[t]

\* Where a thread is says how full its batch for the server is, and the audits
\* speak of the local file as it will be reported.
Held(t) ==
    /\ Len(docs[t]) <= Batch
    /\ phase[t] \in {"play", "mongo"} => Len(docs[t]) < Batch
    /\ phase[t] \in {"idle", "loading", "connect", "report"} => docs[t] = <<>>
    /\ phase[t] = "idle" => local[t] = <<>>
    /\ phase[t] = "send" => docs[t] # <<>>
    /\ passed[t] => /\ phase[t] \in {"close", "report", "leave"}
                    /\ Range(local[t]) \subseteq mongo

ThreadsOK == \A t \in Threads : Held(t) /\ Covered(t)

\* A thread in whose hands nothing changes.
Same(t) ==
    /\ phase'[t] = phase[t] /\ size'[t] = size[t] /\ local'[t] = local[t]
    /\ docs'[t] = docs[t] /\ buf'[t] = buf[t] /\ passed'[t] = passed[t]

\* Mongo, the file and what went down with the host only grow, taken together.
StoresGrow ==
    /\ mongo \subseteq mongo'
    /\ Range(lines) \cup lost \subseteq Range(lines)' \cup lost'

\* What the others do takes nothing from a thread.
LEMMA SameKeeps ==
  ASSUME NEW t \in Threads, Held(t), Covered(t), Same(t), StoresGrow
  PROVE  Held(t)' /\ Covered(t)'
  BY DEF Held, Covered, Same, StoresGrow

\* What an append puts into the file leaves nothing of the batch outside.
LEMMA AppendStores ==
  ASSUME FilesTypeOK, KnownIsThere, NEW batch \in Seq(Rounds), AppendBatch(batch)
  PROVE  Range(batch) \subseteq Range(lines)' \cup lost'
  <1>1. Range(lines \o Fresh(batch)) = Range(lines) \cup (Range(batch) \ Hashes)
    BY AppendedLines
  <1>2. Hashes \subseteq Range(lines) \cup lost
    BY DEF KnownIsThere, HashesFile, Hashes
  <1>3. lines' = lines \o Fresh(batch) /\ lost' = lost
    BY DEF AppendBatch
  <1> QED BY <1>1, <1>2, <1>3

\* A round that is recorded is the last of the local file and in the buffer.
LEMMA RecordFacts ==
  ASSUME ThreadTypes, NEW t \in Threads, NEW r \in Rounds, Record(t, r)
  PROVE  /\ local' \in [Threads -> Seq(Rounds)]
         /\ buf' \in [Threads -> SUBSET Rounds]
         /\ phase' \in [Threads -> Phases]
         /\ phase'[t] \in {"mongo", "play"}
         /\ Range(local'[t]) = Range(local[t]) \cup {r}
         /\ {local'[t][i] : i \in (size[t] + 1)..Len(local'[t])} \subseteq
               {local[t][i] : i \in (size[t] + 1)..Len(local[t])} \cup {r}
         /\ buf'[t] = buf[t] \cup {r}
         /\ \A u \in Threads \ {t} :
               /\ local'[u] = local[u] /\ buf'[u] = buf[u] /\ phase'[u] = phase[u]
  <1>1. /\ local[t] \in Seq(Rounds) /\ size[t] \in Nat /\ Len(local[t]) \in Nat
    BY DEF ThreadTypes
  <1>2. /\ local' = [local EXCEPT ![t] = Append(local[t], r)]
        /\ buf' = [buf EXCEPT ![t] = buf[t] \cup {r}]
        /\ \E p \in {"mongo", "play"} : phase' = [phase EXCEPT ![t] = p]
    BY DEF Record, Goto
  <1>3. /\ Append(local[t], r) \in Seq(Rounds)
        /\ Len(Append(local[t], r)) = Len(local[t]) + 1
        /\ \A i \in 1..Len(local[t]) : Append(local[t], r)[i] = local[t][i]
        /\ Append(local[t], r)[Len(local[t]) + 1] = r
    BY <1>1, AppendProperties
  <1>4. local'[t] = Append(local[t], r)
    BY <1>2 DEF ThreadTypes
  <1>5. Range(local'[t]) = Range(local[t]) \cup {r}
    BY <1>1, <1>4, AppendedRange
  <1>6. {local'[t][i] : i \in (size[t] + 1)..Len(local'[t])} \subseteq
           {local[t][i] : i \in (size[t] + 1)..Len(local[t])} \cup {r}
    <2> SUFFICES ASSUME NEW i \in (size[t] + 1)..Len(local'[t])
                 PROVE  \/ local'[t][i] = r
                        \/ /\ i \in (size[t] + 1)..Len(local[t])
                           /\ local'[t][i] = local[t][i]
      OBVIOUS
    <2> QED BY <1>1, <1>3, <1>4
  <1>7. local' \in [Threads -> Seq(Rounds)]
    BY <1>2, <1>3 DEF ThreadTypes
  <1>8. buf' \in [Threads -> SUBSET Rounds] /\ phase' \in [Threads -> Phases]
    BY <1>2 DEF ThreadTypes, Phases
  <1>9. /\ buf'[t] = buf[t] \cup {r}
        /\ phase'[t] \in {"mongo", "play"}
        /\ \A u \in Threads \ {t} :
              /\ local'[u] = local[u] /\ buf'[u] = buf[u] /\ phase'[u] = phase[u]
    BY <1>2 DEF ThreadTypes
  <1> QED BY <1>5, <1>6, <1>7, <1>8, <1>9

\* Every step keeps the types of the threads.
LEMMA ThreadTypesStep ==
  ASSUME FilesTypeOK, ThreadTypes, ThreadsOK, [Next]_vars
  PROVE  ThreadTypes'
  <1> USE DEF ThreadTypes, BatchesOK
  <1>0. /\ Batch \in Nat \ {0} /\ MaxLeases \in Nat
        /\ lines \in Seq(Rounds) /\ Len(lines) \in Nat
        /\ <<>> \in Seq(Rounds)
        /\ Range(lines) \subseteq Rounds
    BY WriteAssumption, RangeOfSeq DEF FilesTypeOK
  <1>1. ASSUME UNCHANGED threadVars, UNCHANGED <<mongo, accepted, granted>>
        PROVE  ThreadTypes'
    BY <1>1 DEF threadVars
  <1>2. ASSUME NEW t \in Threads, NEW r \in Roles, Load(t, r)
        PROVE  ThreadTypes'
    BY <1>0, <1>2 DEF Load, Goto, Phases
  <1>3. ASSUME NEW t \in Threads, NEW r \in Rounds, Play(t, r)
        PROVE  ThreadTypes'
    <2>1. Append(docs[t], r) \in Seq(Rounds)
      BY AppendProperties
    <2>2. docs' = [docs EXCEPT ![t] = Append(docs[t], r)]
      BY <1>3 DEF Play
    <2>3. docs' \in [Threads -> Seq(Rounds)]
      BY <2>1, <2>2
    <2>4. /\ phase' \in [Threads -> Phases]
          /\ local' \in [Threads -> Seq(Rounds)]
          /\ buf' \in [Threads -> SUBSET Rounds]
      <3>1. CASE Record(t, r)
        BY <3>1, RecordFacts
      <3>2. CASE Goto(t, "send") /\ UNCHANGED <<local, buf>>
        BY <3>2 DEF Goto, Phases
      <3> QED BY <1>3, <3>1, <3>2 DEF Play
    <2> QED BY <1>3, <2>3, <2>4 DEF Play
  <1>4. ASSUME NEW t \in Threads, Restore(t)
        PROVE  ThreadTypes'
    BY <1>0, <1>4 DEF Restore, Goto, Phases
  <1>5. ASSUME NEW t \in Threads, Connect(t)
        PROVE  ThreadTypes'
    <2>1. Repair(t) \subseteq Rounds
      <3>1. local[t] \in Seq(Rounds) /\ Range(local[t]) \subseteq Rounds
        BY RangeOfSeq
      <3>2. \A i \in {Len(local[t])} \ {0} : local[t][i] \in Rounds
        BY <3>1, ElementOfSeq
      <3> QED BY <3>1, <3>2 DEF Repair
    <2>2. mongo' \subseteq Rounds
      BY <1>5, <2>1 DEF Connect
    <2>3. phase' \in [Threads -> Phases]
      BY <1>5 DEF Connect, Goto, Phases
    <2> QED BY <1>5, <2>2, <2>3 DEF Connect
  <1>6. ASSUME NEW t \in Threads, Sent(t) \/ NotSent(t)
        PROVE  docs' \in [Threads -> Seq(Rounds)]
    BY <1>0, <1>6 DEF Sent, NotSent
  <1>7. ASSUME NEW t \in Threads, Send(t)
        PROVE  ThreadTypes'
    <2>1. docs[t][Len(docs[t])] \in Rounds
      <3>1. docs[t] \in Seq(Rounds) /\ docs[t] # <<>>
        BY <1>7 DEF ThreadsOK, Held, Send
      <3>2. Len(docs[t]) \in 1..Len(docs[t])
        BY <3>1, EmptySeq
      <3> QED BY <3>1, <3>2, ElementOfSeq
    <2>2. /\ phase' \in [Threads -> Phases]
          /\ local' \in [Threads -> Seq(Rounds)]
          /\ buf' \in [Threads -> SUBSET Rounds]
      <3>1. CASE Record(t, docs[t][Len(docs[t])])
        BY <2>1, <3>1, RecordFacts
      <3>2. CASE Goto(t, "fail") /\ UNCHANGED <<local, buf>>
        BY <3>2 DEF Goto, Phases
      <3> QED BY <1>7, <3>1, <3>2 DEF Send
    <2>3. docs' \in [Threads -> Seq(Rounds)]
      BY <1>6, <1>7 DEF Send
    <2> QED BY <1>7, <2>2, <2>3 DEF Send
  <1>8. ASSUME NEW t \in Threads, SendEarly(t) \/ SendRest(t)
        PROVE  ThreadTypes'
    <2>1. docs' \in [Threads -> Seq(Rounds)]
      BY <1>6, <1>8 DEF SendEarly, SendRest
    <2>2. phase' \in [Threads -> Phases]
      BY <1>8 DEF SendEarly, SendRest, Goto, Phases
    <2> QED BY <1>8, <2>1, <2>2 DEF SendEarly, SendRest
  <1>9. ASSUME NEW t \in Threads, Written(t) \/ NotWritten(t)
        PROVE  mongo' \subseteq Rounds /\ buf' \in [Threads -> SUBSET Rounds]
    BY <1>9 DEF Written, NotWritten
  <1>10. ASSUME NEW t \in Threads, WriteMongo(t) \/ LeaveCapture(t)
         PROVE  ThreadTypes'
    <2>1. mongo' \subseteq Rounds /\ buf' \in [Threads -> SUBSET Rounds]
      BY <1>9, <1>10 DEF WriteMongo, LeaveCapture
    <2>2. phase' \in [Threads -> Phases]
      BY <1>10 DEF WriteMongo, LeaveCapture, Goto, Phases
    <2> QED BY <1>10, <2>1, <2>2 DEF WriteMongo, LeaveCapture
  <1>11. ASSUME NEW t \in Threads, Audit(t)
         PROVE  ThreadTypes'
    BY <1>11 DEF Audit, Goto, Phases
  <1>12. ASSUME NEW t \in Threads, Report(t)
         PROVE  ThreadTypes'
    <2>1. Range(local[t]) \subseteq Rounds
      BY RangeOfSeq
    <2> QED BY <1>12, <2>1 DEF Report, Goto, Phases
  <1>13. ASSUME NEW t \in Threads, Done(t) \/ Die(t)
         PROVE  ThreadTypes'
    <2>1. Forget(t) /\ UNCHANGED <<mongo, accepted, granted>>
      BY <1>13 DEF Done, Die
    <2>2. lease' \in [Threads -> Roles \cup {"none"}]
      BY <1>13 DEF Done, Die
    <2> QED BY <1>0, <2>1, <2>2 DEF Forget, Goto, Phases
  <1>14. ASSUME NEW t \in Threads, TakeBack(t)
         PROVE  ThreadTypes'
    BY <1>14 DEF TakeBack
  <1>15. CASE ServerStep \/ (\E t \in Threads : SendAgain(t)) \/ UNCHANGED vars
    BY <1>1, <1>15 DEF ServerStep, SendAgain, vars
  <1> QED BY <1>2, <1>3, <1>4, <1>5, <1>7, <1>8, <1>10, <1>11, <1>12, <1>13,
             <1>14, <1>15 DEF Next

\* A step leaves every thread covered when the one that takes it is, and the
\* others have nothing changed in their hands.
LEMMA OneThreadMoves ==
  ASSUME ThreadsOK, StoresGrow, NEW t \in Threads,
         Held(t)', Covered(t)', \A u \in Threads \ {t} : Same(u)
  PROVE  ThreadsOK'
  <1>1. ASSUME NEW u \in Threads, u # t
        PROVE  Held(u)' /\ Covered(u)'
    <2>1. Held(u) /\ Covered(u) /\ Same(u)
      BY <1>1 DEF ThreadsOK
    <2> QED BY <2>1, SameKeeps
  <1>2. \A u \in Threads : Held(u)' /\ Covered(u)'
    BY <1>1
  <1> QED BY <1>2 DEF ThreadsOK

\* No step takes a round out of Mongo.
LEMMA MongoGrows ==
  ASSUME [Next]_vars
  PROVE  mongo \subseteq mongo'
  <1>1. ASSUME NEW t \in Threads, Connect(t) \/ WriteMongo(t) \/ LeaveCapture(t)
        PROVE  mongo \subseteq mongo'
    BY <1>1 DEF Connect, WriteMongo, LeaveCapture, Written, NotWritten
  <1>2. ASSUME NEW t \in Threads,
               \/ Restore(t) \/ Send(t) \/ SendEarly(t) \/ SendAgain(t) \/ Audit(t)
               \/ SendRest(t) \/ Report(t) \/ Done(t) \/ Die(t) \/ TakeBack(t)
        PROVE  mongo \subseteq mongo'
    BY <1>2 DEF Restore, Send, SendEarly, SendAgain, Audit, SendRest, Report, Done,
                Die, TakeBack
  <1>3. ASSUME NEW t \in Threads, NEW r, Load(t, r) \/ Play(t, r)
        PROVE  mongo \subseteq mongo'
    BY <1>3 DEF Load, Play
  <1>4. CASE ServerStep \/ UNCHANGED vars
    BY <1>4 DEF ServerStep, vars
  <1> QED BY <1>1, <1>2, <1>3, <1>4 DEF Next

\* When the server confirms a batch, everything a thread counts is there; when
\* it does not, the thread still has the batch.
LEMMA SentFacts ==
  ASSUME FilesTypeOK, KnownIsThere, ThreadTypes, StoresGrow, NEW t \in Threads,
         Range(local[t]) \subseteq Range(lines) \cup lost \cup Range(docs[t]),
         Sent(t) \/ NotSent(t)
  PROVE  /\ \A u \in Threads \ {t} : docs'[u] = docs[u]
         /\ docs'[t] = <<>> \/ (docs'[t] = docs[t] /\ ~Sent(t))
         /\ Sent(t) => Range(docs[t]) \subseteq Range(lines)' \cup lost'
         /\ Range(local[t]) \subseteq Range(lines)' \cup lost' \cup Range(docs'[t])
  <1>1. docs[t] \in Seq(Rounds)
    BY DEF ThreadTypes, BatchesOK
  <1>2. Sent(t) => Range(docs[t]) \subseteq Range(lines)' \cup lost'
    BY <1>1, AppendStores DEF Sent
  <1>3. CASE Sent(t)
    <2>1. docs' = [docs EXCEPT ![t] = <<>>]
      BY <1>3 DEF Sent
    <2>2. docs'[t] = <<>> /\ \A u \in Threads \ {t} : docs'[u] = docs[u]
      BY <2>1 DEF ThreadTypes, BatchesOK
    <2> QED BY <1>2, <1>3, <2>2 DEF StoresGrow
  <1>4. CASE ~Sent(t)
    <2>1. docs' = docs
      BY <1>4 DEF NotSent
    <2> QED BY <1>4, <2>1 DEF StoresGrow
  <1> QED BY <1>3, <1>4

\* Every step of a thread moves its rounds from a buffer to a store, or keeps
\* them, or gives up the local copy that counts them.
LEMMA ThreadsStep ==
  ASSUME FilesTypeOK, KnownIsThere, ThreadTypes, ThreadsOK, StoresGrow, [Next]_vars
  PROVE  ThreadsOK'
  <1>0. /\ Batch \in Nat \ {0}
        /\ lines \in Seq(Rounds) /\ Len(lines) \in Nat
        /\ Len(<<>>) = 0
        /\ \A t \in Threads :
              /\ Held(t) /\ Covered(t)
              /\ docs[t] \in Seq(Rounds) /\ Len(docs[t]) \in Nat
              /\ local[t] \in Seq(Rounds) /\ Len(local[t]) \in Nat /\ size[t] \in Nat
    BY WriteAssumption DEF FilesTypeOK, ThreadTypes, BatchesOK, ThreadsOK
  <1>1. ASSUME UNCHANGED threadVars
        PROVE  ThreadsOK'
    <2>1. \A u \in Threads : Same(u)
      BY <1>1 DEF Same, threadVars
    <2> QED BY <1>0, <2>1, SameKeeps DEF ThreadsOK
  <1>2. ASSUME NEW t \in Threads, NEW r \in Roles, Load(t, r)
        PROVE  ThreadsOK'
    <2>1. /\ phase'[t] = "loading" /\ size'[t] = Len(lines)
          /\ local' = local /\ docs' = docs /\ buf' = buf /\ passed' = passed
          /\ phase[t] = "idle"
          /\ \A u \in Threads \ {t} : phase'[u] = phase[u] /\ size'[u] = size[u]
      BY <1>2 DEF Load, Goto, ThreadTypes
    <2>2. local[t] = <<>> /\ docs[t] = <<>> /\ ~passed[t]
      BY <1>0, <2>1 DEF Held
    <2>3. Held(t)'
      BY <1>0, <2>1, <2>2 DEF Held
    <2>4. Covered(t)'
      BY <1>0, <2>1, <2>2 DEF Covered, Range
    <2>5. \A u \in Threads \ {t} : Same(u)
      BY <2>1 DEF Same
    <2> QED BY <2>3, <2>4, <2>5, OneThreadMoves
  <1>3. ASSUME NEW t \in Threads, Restore(t)
        PROVE  ThreadsOK'
    <2>1. /\ phase'[t] \in {"connect", "leave"} /\ phase[t] = "loading"
          /\ size' = size /\ docs' = docs /\ buf' = buf /\ passed' = passed
          /\ \A u \in Threads \ {t} : phase'[u] = phase[u] /\ local'[u] = local[u]
      BY <1>3 DEF Restore, Goto, ThreadTypes
    <2>2. \/ Len(lines) = size[t] /\ local'[t] = lines
          \/ local'[t] = local[t]
      BY <1>3 DEF Restore, ThreadTypes
    <2>3. docs[t] = <<>> /\ ~passed[t]
      BY <1>0, <2>1 DEF Held
    <2>4. Held(t)'
      BY <1>0, <2>1, <2>3 DEF Held
    <2>5. Covered(t)'
      <3>1. CASE Len(lines) = size[t] /\ local'[t] = lines
        <4>1. \A i \in (size[t] + 1)..Len(lines) : FALSE
          BY <1>0, <3>1
        <4>2. lines' = lines /\ lost' = lost
          BY <1>3 DEF Restore, fileVars
        <4> QED BY <2>1, <3>1, <4>1, <4>2 DEF Covered
      <3>2. CASE local'[t] = local[t]
        BY <1>0, <2>1, <3>2 DEF Covered, StoresGrow
      <3> QED BY <2>2, <3>1, <3>2
    <2>6. \A u \in Threads \ {t} : Same(u)
      BY <2>1 DEF Same
    <2> QED BY <2>4, <2>5, <2>6, OneThreadMoves
  <1>4. ASSUME NEW t \in Threads, Connect(t)
        PROVE  ThreadsOK'
    <2>1. /\ phase'[t] \in {"play", "close"} /\ phase[t] = "connect"
          /\ size' = size /\ local' = local /\ docs' = docs /\ buf' = buf
          /\ passed' = passed
          /\ \A u \in Threads \ {t} : phase'[u] = phase[u]
      BY <1>4 DEF Connect, Goto, ThreadTypes
    <2>2. docs[t] = <<>> /\ ~passed[t]
      BY <1>0, <2>1 DEF Held
    <2>3. Held(t)'
      BY <1>0, <2>1, <2>2 DEF Held
    <2>4. Covered(t)'
      BY <1>0, <2>1 DEF Covered, StoresGrow
    <2>5. \A u \in Threads \ {t} : Same(u)
      BY <2>1 DEF Same
    <2> QED BY <2>3, <2>4, <2>5, OneThreadMoves
  <1>5. ASSUME NEW t \in Threads, NEW r \in Rounds, Play(t, r)
        PROVE  ThreadsOK'
    <2>1. /\ docs'[t] = Append(docs[t], r) /\ phase[t] = "play"
          /\ size' = size /\ passed' = passed
          /\ \A u \in Threads \ {t} : docs'[u] = docs[u]
      BY <1>5 DEF Play, ThreadTypes, BatchesOK
    <2>2. /\ Append(docs[t], r) # <<>>
          /\ Len(Append(docs[t], r)) = Len(docs[t]) + 1
          /\ Range(Append(docs[t], r)) = Range(docs[t]) \cup {r}
      BY <1>0, AppendProperties, AppendedRange
    <2>3. Len(docs[t]) < Batch /\ ~passed[t]
      BY <1>0, <2>1 DEF Held
    <2>4. CASE Len(docs'[t]) >= Batch
      <3>1. /\ phase'[t] = "send" /\ local' = local /\ buf' = buf
            /\ \A u \in Threads \ {t} : phase'[u] = phase[u]
        BY <1>5, <2>4 DEF Play, Goto, ThreadTypes
      <3>2. Held(t)'
        BY <1>0, <2>1, <2>2, <2>3, <3>1 DEF Held
      <3>3. Covered(t)'
        BY <1>0, <2>1, <2>2, <3>1 DEF Covered, StoresGrow
      <3>4. \A u \in Threads \ {t} : Same(u)
        BY <2>1, <3>1 DEF Same
      <3> QED BY <3>2, <3>3, <3>4, OneThreadMoves
    <2>5. CASE ~(Len(docs'[t]) >= Batch)
      <3>1. Record(t, r)
        BY <1>5, <2>5 DEF Play
      <3>2. Held(t)'
        BY <1>0, <2>1, <2>2, <2>3, <2>5, <3>1, RecordFacts DEF Held
      <3>3. Covered(t)'
        <4>1. /\ Range(local'[t]) = Range(local[t]) \cup {r}
              /\ {local'[t][i] : i \in (size[t] + 1)..Len(local'[t])} \subseteq
                    {local[t][i] : i \in (size[t] + 1)..Len(local[t])} \cup {r}
              /\ buf'[t] = buf[t] \cup {r}
          BY <3>1, RecordFacts
        <4>2. {local[t][i] : i \in (size[t] + 1)..Len(local[t])} \subseteq mongo \cup buf[t]
          BY <1>0 DEF Covered
        <4>3. {local'[t][i] : i \in (size'[t] + 1)..Len(local'[t])} \subseteq mongo' \cup buf'[t]
          BY <2>1, <4>1, <4>2 DEF StoresGrow
        <4>4. Range(local'[t]) \subseteq Range(lines)' \cup lost' \cup Range(docs'[t])
          BY <1>0, <2>1, <2>2, <4>1 DEF Covered, StoresGrow
        <4> QED BY <4>3, <4>4 DEF Covered
      <3>4. \A u \in Threads \ {t} : Same(u)
        BY <2>1, <3>1, RecordFacts DEF Same
      <3> QED BY <3>2, <3>3, <3>4, OneThreadMoves
    <2> QED BY <2>4, <2>5
  <1>6. ASSUME NEW t \in Threads, Send(t)
        PROVE  ThreadsOK'
    <2>0. /\ phase[t] = "send" /\ size' = size /\ passed' = passed
          /\ ~passed[t]
      BY <1>0, <1>6 DEF Send, Held
    <2>1. CASE Sent(t) /\ Record(t, docs[t][Len(docs[t])])
      <3> DEFINE r == docs[t][Len(docs[t])]
      <3>1. docs[t] # <<>>
        BY <1>0, <2>0 DEF Held
      <3>2. r \in Rounds /\ r \in Range(docs[t])
        <4>1. Len(docs[t]) \in 1..Len(docs[t])
          BY <1>0, <3>1, EmptySeq
        <4> QED BY <1>0, <4>1, ElementOfSeq, RangeEquality
      <3>3. /\ docs'[t] = <<>>
            /\ \A u \in Threads \ {t} : docs'[u] = docs[u]
            /\ Range(docs[t]) \subseteq Range(lines)' \cup lost'
            /\ Range(local[t]) \subseteq Range(lines)' \cup lost'
        <4>1. Range(<<>>) = {}
          BY DEF Range
        <4> QED BY <1>0, <2>1, <4>1, SentFacts DEF Covered
      <3> HIDE DEF r
      <3>4. Record(t, r)
        BY <2>1 DEF r
      <3>5. Held(t)'
        BY <1>0, <2>0, <3>2, <3>3, <3>4, RecordFacts DEF Held
      <3>6. Covered(t)'
        <4>1. /\ Range(local'[t]) = Range(local[t]) \cup {r}
              /\ {local'[t][i] : i \in (size[t] + 1)..Len(local'[t])} \subseteq
                    {local[t][i] : i \in (size[t] + 1)..Len(local[t])} \cup {r}
              /\ buf'[t] = buf[t] \cup {r}
          BY <3>2, <3>4, RecordFacts
        <4>2. {local[t][i] : i \in (size[t] + 1)..Len(local[t])} \subseteq mongo \cup buf[t]
          BY <1>0 DEF Covered
        <4>3. {local'[t][i] : i \in (size'[t] + 1)..Len(local'[t])} \subseteq mongo' \cup buf'[t]
          BY <2>0, <4>1, <4>2 DEF StoresGrow
        <4>4. Range(local'[t]) \subseteq Range(lines)' \cup lost' \cup Range(docs'[t])
          BY <1>0, <2>0, <3>2, <3>3, <4>1 DEF Covered, StoresGrow
        <4> QED BY <4>3, <4>4 DEF Covered
      <3>7. \A u \in Threads \ {t} : Same(u)
        BY <2>0, <3>2, <3>3, <3>4, RecordFacts DEF Same
      <3> QED BY <3>5, <3>6, <3>7, OneThreadMoves
    <2>2. CASE NotSent(t) /\ Goto(t, "fail") /\ UNCHANGED <<local, buf>>
      <3>1. /\ docs' = docs /\ local' = local /\ buf' = buf /\ phase'[t] = "fail"
            /\ \A u \in Threads \ {t} : phase'[u] = phase[u]
        BY <2>2 DEF NotSent, Goto, ThreadTypes
      <3>2. Held(t)' /\ Covered(t)'
        BY <1>0, <2>0, <3>1 DEF Held, Covered, StoresGrow
      <3>3. \A u \in Threads \ {t} : Same(u)
        BY <2>0, <3>1 DEF Same
      <3> QED BY <3>2, <3>3, OneThreadMoves
    <2> QED BY <1>6, <2>1, <2>2 DEF Send
  <1>7. ASSUME NEW t \in Threads, SendEarly(t) \/ SendRest(t)
        PROVE  ThreadsOK'
    <2>0. /\ phase[t] \in {"play", "close"} /\ size' = size /\ passed' = passed
          /\ phase[t] = "play" => ~passed[t]
          /\ local' = local /\ buf' = buf
          /\ \A u \in Threads \ {t} : phase'[u] = phase[u]
      BY <1>0, <1>7 DEF SendEarly, SendRest, Held, Goto, ThreadTypes
    <2>1. CASE Sent(t) \/ NotSent(t)
      <3>1. /\ \A u \in Threads \ {t} : docs'[u] = docs[u]
            /\ docs'[t] = <<>> \/ (docs'[t] = docs[t] /\ ~Sent(t))
            /\ Range(local[t]) \subseteq Range(lines)' \cup lost' \cup Range(docs'[t])
        BY <1>0, <2>1, SentFacts DEF Covered
      <3>2. \/ phase'[t] \in {"play", "report"} /\ Sent(t)
            \/ phase'[t] \in {"fail", "leave"}
            \/ phase'[t] = "report" /\ docs'[t] = <<>>
        BY <1>7 DEF SendEarly, SendRest, Goto, ThreadTypes, BatchesOK
      <3>3. phase[t] = "close" => phase'[t] \in {"report", "leave"}
        BY <1>7 DEF SendEarly, SendRest, Goto, ThreadTypes
      <3>4. Held(t)'
        BY <1>0, <2>0, <3>1, <3>2, <3>3 DEF Held, StoresGrow
      <3>5. Covered(t)'
        BY <1>0, <2>0, <3>1 DEF Covered, StoresGrow
      <3>6. \A u \in Threads \ {t} : Same(u)
        BY <2>0, <3>1 DEF Same
      <3> QED BY <3>4, <3>5, <3>6, OneThreadMoves
    <2>2. CASE docs[t] = <<>> /\ phase[t] = "close" /\ Goto(t, "report") /\ docs' = docs
      <3>1. phase'[t] = "report"
        BY <2>2 DEF Goto, ThreadTypes
      <3>2. Held(t)' /\ Covered(t)'
        BY <1>0, <2>0, <2>2, <3>1 DEF Held, Covered, StoresGrow
      <3>3. \A u \in Threads \ {t} : Same(u)
        BY <2>0, <2>2 DEF Same
      <3> QED BY <3>2, <3>3, OneThreadMoves
    <2> QED BY <1>7, <2>1, <2>2 DEF SendEarly, SendRest
  <1>8. ASSUME NEW t \in Threads, WriteMongo(t) \/ LeaveCapture(t)
        PROVE  ThreadsOK'
    <2>0. /\ phase[t] \in {"mongo", "play", "fail"}
          /\ phase'[t] \in {"play", "fail", "audit", "close"}
          /\ phase'[t] = "play" => phase[t] = "mongo"
          /\ size' = size /\ passed' = passed /\ local' = local /\ docs' = docs
          /\ \A u \in Threads \ {t} : phase'[u] = phase[u]
      BY <1>8 DEF WriteMongo, LeaveCapture, Goto, ThreadTypes
    <2>1. ~passed[t]
      BY <1>0, <2>0 DEF Held
    <2>2. /\ mongo \cup buf[t] \subseteq mongo' \cup buf'[t]
          /\ \A u \in Threads \ {t} : buf'[u] = buf[u]
      <3>1. Written(t) \/ NotWritten(t)
        BY <1>8 DEF WriteMongo, LeaveCapture
      <3> QED BY <3>1 DEF Written, NotWritten, ThreadTypes
    <2>3. Held(t)'
      BY <1>0, <2>0, <2>1 DEF Held
    <2>4. Covered(t)'
      BY <1>0, <2>0, <2>2 DEF Covered, StoresGrow
    <2>5. \A u \in Threads \ {t} : Same(u)
      BY <2>0, <2>2 DEF Same
    <2> QED BY <2>3, <2>4, <2>5, OneThreadMoves
  <1>9. ASSUME NEW t \in Threads, Audit(t)
        PROVE  ThreadsOK'
    <2>1. /\ phase[t] = "audit" /\ phase'[t] = "close"
          /\ passed'[t] \in {passed[t], TRUE}
          /\ passed'[t] # passed[t] => Range(local[t]) = mongo
          /\ size' = size /\ local' = local /\ docs' = docs /\ buf' = buf
          /\ mongo' = mongo
          /\ \A u \in Threads \ {t} : phase'[u] = phase[u] /\ passed'[u] = passed[u]
      BY <1>9 DEF Audit, CountsMatch, Goto, ThreadTypes
    <2>2. ~passed[t]
      BY <1>0, <2>1 DEF Held
    <2>3. Held(t)'
      <3>1. passed'[t] => Range(local[t]) \subseteq mongo'
        BY <2>1, <2>2
      <3> QED BY <1>0, <2>1, <3>1 DEF Held
    <2>4. Covered(t)'
      BY <1>0, <2>1 DEF Covered, StoresGrow
    <2>5. \A u \in Threads \ {t} : Same(u)
      BY <2>1 DEF Same
    <2> QED BY <2>3, <2>4, <2>5, OneThreadMoves
  <1>10. ASSUME NEW t \in Threads, Report(t)
         PROVE  ThreadsOK'
    <2>1. /\ phase[t] = "report" /\ phase'[t] = "leave"
          /\ size' = size /\ local' = local /\ docs' = docs /\ buf' = buf
          /\ passed' = passed
          /\ \A u \in Threads \ {t} : phase'[u] = phase[u]
      BY <1>10 DEF Report, Goto, ThreadTypes
    <2>2. Held(t)' /\ Covered(t)'
      BY <1>0, <2>1 DEF Held, Covered, StoresGrow
    <2>3. \A u \in Threads \ {t} : Same(u)
      BY <2>1 DEF Same
    <2> QED BY <2>2, <2>3, OneThreadMoves
  <1>11. ASSUME NEW t \in Threads, Done(t) \/ Die(t)
         PROVE  ThreadsOK'
    <2>1. Forget(t)
      BY <1>11 DEF Done, Die
    <2>2. /\ phase'[t] = "idle" /\ size'[t] = 0 /\ local'[t] = <<>>
          /\ docs'[t] = <<>> /\ passed'[t] = FALSE
      BY <2>1 DEF Forget, Goto, ThreadTypes, BatchesOK
    <2>3. Held(t)' /\ Covered(t)'
      BY <1>0, <2>2 DEF Held, Covered, Range
    <2>4. \A u \in Threads \ {t} : Same(u)
      BY <2>1 DEF Forget, Goto, Same, ThreadTypes, BatchesOK
    <2> QED BY <2>3, <2>4, OneThreadMoves
  <1>12. ASSUME NEW t \in Threads, TakeBack(t)
         PROVE  ThreadsOK'
    <2>1. \A u \in Threads : Same(u)
      BY <1>12 DEF TakeBack, Same
    <2> QED BY <1>0, <2>1, SameKeeps DEF ThreadsOK
  <1>13. CASE ServerStep \/ (\E t \in Threads : SendAgain(t)) \/ UNCHANGED vars
    BY <1>1, <1>13 DEF ServerStep, SendAgain, vars
  <1> QED BY <1>2, <1>3, <1>4, <1>5, <1>6, <1>7, <1>8, <1>9, <1>10, <1>11,
             <1>12, <1>13 DEF Next

-----------------------------------------------------------------------------
(* The invariants.                                                         *)

\* Reports are made of what the audits saw, after the last batch was confirmed.
LEMMA AcceptedStep ==
  ASSUME ThreadsOK, StoresGrow, AcceptedIsStored, [Next]_vars
  PROVE  AcceptedIsStored'
  <1>1. CASE accepted' = accepted
    BY <1>1 DEF AcceptedIsStored, StoresGrow
  <1>2. ASSUME NEW t \in Threads, Report(t)
        PROVE  AcceptedIsStored'
    <2>1. Held(t) /\ Covered(t) /\ phase[t] = "report"
      BY <1>2 DEF ThreadsOK, Report
    <2>2. CASE passed[t] /\ accepted' = Range(local[t])
      <3>1. Range(local[t]) \subseteq mongo
        BY <2>1, <2>2 DEF Held
      <3>2. docs[t] = <<>> /\ Range(<<>>) = {}
        BY <2>1 DEF Held, Range
      <3>3. Range(local[t]) \subseteq Range(lines) \cup lost
        BY <2>1, <3>2 DEF Covered
      <3> QED BY <2>2, <3>1, <3>3 DEF AcceptedIsStored, StoresGrow
    <2> QED BY <1>1, <1>2, <2>2 DEF Report
  <1>3. ASSUME NEW t \in Threads,
               \/ Restore(t) \/ Connect(t) \/ Send(t) \/ SendEarly(t) \/ SendAgain(t)
               \/ WriteMongo(t) \/ LeaveCapture(t) \/ Audit(t) \/ SendRest(t)
               \/ Done(t) \/ Die(t) \/ TakeBack(t)
        PROVE  accepted' = accepted
    BY <1>3 DEF Restore, Connect, Send, SendEarly, SendAgain, WriteMongo,
                LeaveCapture, Audit, SendRest, Done, Die, TakeBack
  <1>4. ASSUME NEW t \in Threads, NEW r, Load(t, r) \/ Play(t, r)
        PROVE  accepted' = accepted
    BY <1>4 DEF Load, Play
  <1>5. CASE ServerStep \/ UNCHANGED vars
    BY <1>1, <1>5 DEF ServerStep, vars
  <1> QED BY <1>1, <1>2, <1>3, <1>4, <1>5 DEF Next

\* The inductive invariant: the types, what the index may know, where the
\* rounds of a thread are, and the four promises.
Inv ==
    /\ FilesTypeOK
    /\ ThreadTypes
    /\ KnownIsThere
    /\ ThreadsOK
    /\ UnsyncedIsExact
    /\ IndexMatchesLines
    /\ AcceptedIsStored

LEMMA InvInit == Init => Inv
  <1> SUFFICES ASSUME Init
               PROVE  Inv
    OBVIOUS
  <1>0. /\ FsyncEvery \in Nat \ {0} /\ MaxFaults \in Nat
        /\ Batch \in Nat \ {0} /\ MaxLeases \in Nat
    BY FilesAssumption, WriteAssumption
  <1>1. PICK r \in Rounds : lines \in {<<>>, <<r>>}
    BY DEF Init, FilesInit
  <1>2. /\ lines \in Seq(Rounds) /\ Len(lines) \in Nat /\ IsInjective(lines)
        /\ Range(lines) \subseteq Rounds /\ Range(<<>>) = {}
    <2>1. /\ <<>> \in Seq(Rounds) /\ Len(<<>>) = 0 /\ IsInjective(<<>>)
          /\ Range(<<>>) = {}
      BY DEF IsInjective, Range
    <2>2. /\ <<r>> \in Seq(Rounds) /\ Len(<<r>>) = 1 /\ IsInjective(<<r>>)
          /\ Range(<<r>>) \subseteq Rounds
      BY DEF IsInjective, Range
    <2> QED BY <1>1, <2>1, <2>2
  <1>3. FilesTypeOK
    <2>1. /\ durable = Len(lines) /\ index = None /\ up = TRUE /\ known = None
          /\ unsynced = 0 /\ faults = 0 /\ lost = {}
          /\ forgotten = FALSE /\ damaged = FALSE
      BY DEF Init, FilesInit
    <2>2. durable \in 0..Len(lines) /\ unsynced \in 0..(FsyncEvery - 1) /\ faults \in 0..MaxFaults
      BY <1>0, <1>2, <2>1
    <2>3. up \in BOOLEAN /\ forgotten \in BOOLEAN /\ damaged \in BOOLEAN /\ lost \subseteq Rounds
      BY <2>1
    <2> QED BY <1>2, <2>1, <2>2, <2>3 DEF FilesTypeOK
  <1>4. ThreadTypes
    BY <1>0, <1>2 DEF Init, ThreadTypes, BatchesOK, Phases, Roles
  <1>5. KnownIsThere /\ IndexMatchesLines /\ UnsyncedIsExact
    BY <1>2 DEF Init, FilesInit, KnownIsThere, IndexMatchesLines, UnsyncedIsExact
  <1>6. ThreadsOK
    BY <1>0, <1>2 DEF Init, ThreadsOK, Held, Covered, Range
  <1>7. AcceptedIsStored
    BY DEF Init, AcceptedIsStored
  <1> QED BY <1>3, <1>4, <1>5, <1>6, <1>7 DEF Inv

LEMMA InvStep == Inv /\ [Next]_vars => Inv'
  <1> SUFFICES ASSUME Inv, [Next]_vars
               PROVE  Inv'
    OBVIOUS
  <1>1. FilesNext /\ mongo \subseteq mongo'
    BY FilesAreTouchedByThese, MongoGrows
  <1>2. BatchesOK
    BY DEF Inv, ThreadTypes
  <1>3. KnownIsThere' /\ StoresGrow
    BY <1>1, <1>2, KnownStep DEF Inv, StoresGrow
  <1>4. FilesTypeOK' /\ UnsyncedIsExact' /\ IndexMatchesLines'
    BY <1>1, <1>2, FilesTypesStep, UnsyncedStep, IndexStep DEF Inv
  <1>5. ThreadTypes' /\ ThreadsOK'
    BY <1>3, ThreadTypesStep, ThreadsStep DEF Inv
  <1>6. AcceptedIsStored'
    BY <1>3, AcceptedStep DEF Inv
  <1> QED BY <1>3, <1>4, <1>5, <1>6 DEF Inv

LEMMA InvHolds == Spec => []Inv
  BY InvInit, InvStep, PTL DEF Spec

\* Files, buffers and threads stay well typed, and no batch for the server grows
\* past its limit (the 25 of oaks.ts and worker.ts), whatever fails on the way.
THEOREM WriteTypes == Spec => []TypeOK
  <1>1. Inv => TypeOK
    BY DEF Inv, ThreadTypes, BatchesOK, ThreadsOK, Held, TypeOK
  <1> QED BY <1>1, InvHolds, PTL

\* The daemon's count of unsynced lines is exact unless it was killed over some,
\* for every group size, number of threads and batch (coordinator.py 57-60,
\* 225-238 and 699-702).
THEOREM SyncCountIsExact == Spec => []UnsyncedIsExact
  <1>1. Inv => UnsyncedIsExact
    BY DEF Inv
  <1> QED BY <1>1, InvHolds, PTL

\* Unless a crash cut an append or took a part of a file, the index is the file
\* and no round is in it twice (coordinator.py 293-313 and 661-690).
THEOREM IndexIsTheFile == Spec => []IndexMatchesLines
  <1>1. Inv => IndexMatchesLines
    BY DEF Inv
  <1> QED BY <1>1, InvHolds, PTL

\* No round falls between the buffers of a thread and the two stores, through
\* lost replies, refusals, repeated batches and crashes of the server
\* (worker.ts 60-71 and 170-175, oaks.ts 354-365 and 480-511).
THEOREM NothingFallsBetween == Spec => []BuffersCover
  <1>1. Inv => BuffersCover
    BY DEF Inv, ThreadsOK, Covered, BuffersCover
  <1> QED BY <1>1, InvHolds, PTL

\* A report never counts a round that one of the stores does not have, unless
\* the host lost it (worker.ts 73-82, 424-433 and 456-468).
THEOREM AcceptanceIsBacked == Spec => []AcceptedIsStored
  <1>1. Inv => AcceptedIsStored
    BY DEF Inv
  <1> QED BY <1>1, InvHolds, PTL

=============================================================================

------------------------- MODULE SourceQueueProofs -------------------------
(***************************************************************************)
(* The queue of sources, for any threads, files, lists of chunks and       *)
(* bounds: it implements the pool of blocks its users assume, its counters *)
(* are exact, every file is sent whole, and no two files share a sequence  *)
(* id.                                                                     *)
(***************************************************************************)
EXTENDS SourceQueueLemmas

(* There are as many deletions as files to delete, and none was made before. *)
LEMMA DeletionsCount ==
    ASSUME NEW E, IsFiniteSet(E)
    PROVE  /\ IsFiniteSet({Deletion(f) : f \in E})
           /\ Cardinality({Deletion(f) : f \in E}) = Cardinality(E)
<1> DEFINE D == {Deletion(f) : f \in E}
           d == [f \in E |-> Deletion(f)]
<1>1. d \in [E -> D]
  OBVIOUS
<1>2. \A f, g \in E : f # g => d[f] # d[g]
  BY BlockFields
<1>3. \A b \in D : \E f \in E : d[f] = b
  OBVIOUS
<1>4. d \in Bijection(E, D)
  BY <1>1, <1>2, <1>3 DEF Bijection, Injection, Surjection, IsInjective
<1>5. ExistsBijection(E, D)
  BY <1>4 DEF ExistsBijection
<1>6. QED
  BY <1>5, FS_Bijection

(* The deletions are finitely many. *)
LEMMA DeletionsFinite ==
    ASSUME NEW all, NEW prev \in Previous \cup {<<>>}, NEW finished
    PROVE  IsFiniteSet(Deletions(all, prev, finished))
<1>1. Deletions(all, prev, finished) \subseteq DOMAIN prev
  BY DEF Deletions, ExtraFiles
<1>2. QED
  BY <1>1, PreviousType, FS_Subset

(* The end of the discovery adds the deletions. *)
LEMMA FinishDiscoveryStep ==
    ASSUME QueueInv, FinishDiscovery
    PROVE  LET E == Deletions(found, previous, TRUE)
               N == {Deletion(f) : f \in E}
           IN  /\ queue' = queue \cup N
               /\ numBlocks' = numBlocks + Cardinality(N)
               /\ N \cap Sources = {} /\ IsFiniteSet(N)
               /\ N \subseteq AllSources
               /\ DOMAIN seqId' = DOMAIN seqId \cup E
               /\ \A f \in DOMAIN seqId : f \notin E /\ seqId'[f] = seqId[f]
               /\ \A f \in E : seqId'[f] = previous[f].seqId
               /\ disc.step = "finish" /\ ~initFinished /\ initFinished'
               /\ disc' = [disc EXCEPT !.step = "done"]
               /\ \E S \in SUBSET Waiting : pc' = Woken(pc, S)
               /\ UNCHANGED <<dequeued, found, previous, chunksSet, nextSeqId, failed,
                              opening, held, sent>>
<1> USE DEF QueueInv
<1> DEFINE E == Deletions(found, previous, TRUE)
           N == {Deletion(f) : f \in E}
           acc == EnqueueFilesToBeDeleted(Acc, previous, found, TRUE)
<1>0. /\ disc.step = "finish" /\ initFinished'
      /\ disc' = [disc EXCEPT !.step = "done"]
      /\ UNCHANGED <<dequeued, found, previous, chunksSet, failed, opening, held, sent>>
      /\ SetAcc(acc)
      /\ \E S \in Notified(acc.numBlocks - numBlocks) :
            pc' = Woken(pc, IF acc.queue = {} THEN Waiting ELSE S)
  BY Zenon DEF FinishDiscovery
<1>1. ~initFinished
  BY Zenon, <1>0 DEF DiscInv
<1>2. \E S \in SUBSET Waiting : pc' = Woken(pc, S)
  BY Zenon, <1>0, NotifiedWait
<1>3. IsFiniteSet(E) /\ IsFiniteSet(N) /\ Cardinality(N) = Cardinality(E)
  BY Zenon, DeletionsFinite, DeletionsCount DEF PrevInv
<1>4. DOMAIN seqId = Queued(found, previous)
  BY <1>1 DEF IdInv, Deletions
<1>5. \A f \in DOMAIN seqId : f \notin E
  BY <1>4 DEF Queued, Deletions, ExtraFiles
<1>6. /\ queue' = queue \cup N /\ numBlocks' = numBlocks + Cardinality(E)
      /\ nextSeqId' = nextSeqId
      /\ DOMAIN seqId' = DOMAIN seqId \cup E
      /\ \A f \in DOMAIN seqId : seqId'[f] = seqId[f]
      /\ \A f \in E : seqId'[f] = previous[f].seqId
  <2>1. CASE DeleteExtra
    <3>1. E = ExtraFiles(previous, found)
      BY <2>1 DEF Deletions
    <3>2. /\ queue' = queue \cup N /\ numBlocks' = numBlocks + Cardinality(E)
          /\ nextSeqId' = nextSeqId
          /\ seqId' = [f \in DOMAIN seqId \cup E |->
                          IF f \in E THEN previous[f].seqId ELSE seqId[f]]
      BY Zenon, <1>0, <2>1, <3>1 DEF SetAcc, EnqueueFilesToBeDeleted, Acc
    <3>3. QED
      BY Zenon, <1>5, <3>2
  <2>2. CASE ~DeleteExtra
    <3>1. E = {} /\ N = {}
      BY <2>2 DEF Deletions
    <3>2. queue' = queue /\ numBlocks' = numBlocks /\ nextSeqId' = nextSeqId /\ seqId' = seqId
      BY <1>0, <2>2 DEF SetAcc, EnqueueFilesToBeDeleted, Acc
    <3>3. Cardinality(E) = 0
      BY <3>1, FS_EmptySet, Zenon
    <3>4. numBlocks \in Nat
      BY FS_CardinalityType DEF CountInv
    <3>5. /\ queue \cup N = queue /\ DOMAIN seqId \cup E = DOMAIN seqId
          /\ \A f \in E : seqId'[f] = previous[f].seqId
      BY Zenon, <3>1
    <3>6. numBlocks + Cardinality(E) = numBlocks
      <4>1. numBlocks + 0 = numBlocks
        BY <3>4
      <4>2. QED
        BY <3>3, <4>1, Zenon
    <3>7. QED
      BY <3>2, <3>5, <3>6, Zenon
  <2>3. QED
    BY Zenon, <2>1, <2>2
<1>7. N \cap Sources = {}
  <2> SUFFICES ASSUME NEW f \in E, Deletion(f) \in Sources
               PROVE  FALSE
    BY Zenon
  <2>1. Deletions(found, previous, initFinished) = {}
    BY <1>1 DEF Deletions
  <2>2. PICK g \in Queued(found, previous) : Deletion(f) \in SourcesOf(g, previous)
    BY <2>1, MadeMembers DEF MadeInv
  <2>3. QED
    BY <2>2, BlockFields
<1>8. N \subseteq AllSources
  <2>1. N \subseteq Made(found, previous, TRUE)
    BY Zenon DEF Made
  <2>2. QED
    BY Zenon, <2>1, MadeInAllSources DEF DiscInv, PrevInv
<1>9. QED
  BY Zenon, <1>0, <1>1, <1>2, <1>3, <1>5, <1>6, <1>7, <1>8

(* enqueueFilesToBeDeleted at the end of the discovery keeps the invariant. *)
LEMMA FinishDiscoveryInv ==
    ASSUME QueueInv, FinishDiscovery
    PROVE  QueueInv'
<1> USE DEF QueueInv
<1> DEFINE E == Deletions(found, previous, TRUE)
           N == {Deletion(f) : f \in E}
<1>0. /\ queue' = queue \cup N /\ numBlocks' = numBlocks + Cardinality(N)
      /\ N \cap Sources = {} /\ IsFiniteSet(N)
      /\ DOMAIN seqId' = DOMAIN seqId \cup E
      /\ \A f \in DOMAIN seqId : f \notin E /\ seqId'[f] = seqId[f]
      /\ \A f \in E : seqId'[f] = previous[f].seqId
      /\ disc.step = "finish" /\ ~initFinished /\ initFinished'
      /\ disc' = [disc EXCEPT !.step = "done"]
      /\ \E S \in SUBSET Waiting : pc' = Woken(pc, S)
      /\ UNCHANGED <<dequeued, found, previous, chunksSet, nextSeqId, failed,
                     opening, held, sent>>
  BY Zenon, FinishDiscoveryStep
<1>1. ThreadInv' /\ PrevInv'
  BY <1>0, WokenInv
<1>2. /\ Sources' = Sources \cup N /\ IsFiniteSet(Sources')
      /\ Cardinality(Sources') = Cardinality(Sources) + Cardinality(N) /\ InOnePlace'
  <2>1. InOnePlace /\ CountInv
    OBVIOUS
  <2>2. QED
    BY Zenon, <1>0, <2>1, Added
<1>3. Deletions(found, previous, initFinished) = {} /\ E = Deletions(found', previous', initFinished')
  BY <1>0 DEF Deletions
<1>4. MadeInv'
  <2>1. Made(found', previous', initFinished') = Made(found, previous, initFinished) \cup N
    BY <1>0, <1>3 DEF Made
  <2>2. QED
    BY <1>2, <2>1 DEF MadeInv
<1>5. CountInv'
  <2>1. Held' \cup sent' = Held \cup sent
    BY <1>0 DEF Held
  <2>2. QED
    BY Zenon, <1>0, <1>2, <2>1 DEF CountInv
<1>6. DiscInv'
  BY Zenon, <1>0 DEF DiscInv, DiscSteps
<1>7. IdInv'
  <2>1. DOMAIN seqId' = Queued(found', previous') \cup Deletions(found', previous', initFinished')
    BY <1>0, <1>3 DEF IdInv
  <2>2. \A f \in E : f \in DOMAIN previous /\ f \notin Range(found)
    BY DEF Deletions, ExtraFiles
  <2>3. QED
    BY Zenon, <1>0, <2>1, <2>2 DEF IdInv
<1>8. QED
  BY <1>1, <1>2, <1>4, <1>5, <1>6, <1>7

-----------------------------------------------------------------------------
(* The list of chunks *)

(* Finitely many files were found, and their blocks are finitely many. *)
LEMMA BlocksFinite ==
    ASSUME NEW all \in Seq(DOMAIN FileSize), NEW prev \in Previous \cup {<<>>}
    PROVE  IsFiniteSet(BlocksOfFiles(all, prev))
<1> DEFINE Q == Queued(all, prev)
           B == {SourcesOf(f, prev) : f \in Q}
           blocks == [f \in Q |-> SourcesOf(f, prev)]
<1>1. Len(all) \in Nat /\ DOMAIN all = 1 .. Len(all)
  OBVIOUS
<1>2. IsFiniteSet(1 .. Len(all))
  BY <1>1, FS_Interval
<1>3. all \in Surjection(1 .. Len(all), Range(all))
  BY <1>1 DEF Surjection, Range
<1>4. IsFiniteSet(Range(all))
  BY <1>2, <1>3, FS_Surjection
<1>5. IsFiniteSet(Q)
  BY <1>4, FS_Subset DEF Queued
<1>6. blocks \in Surjection(Q, B)
  BY DEF Surjection
<1>7. IsFiniteSet(B)
  BY <1>5, <1>6, FS_Surjection
<1>8. \A S \in B : IsFiniteSet(S)
  <2>1. Q \subseteq DOMAIN FileSize
    BY DEF Queued, Range
  <2>2. QED
    BY <2>1, SplitAssumption
<1>9. QED
  BY Zenon, <1>7, <1>8, FS_UNION DEF BlocksOfFiles

(* The first new id is above those of the list. *)
LEMMA FirstSeqIdAbove ==
    ASSUME NEW prev \in Previous
    PROVE  /\ FirstSeqId(prev) \in Nat
           /\ \A g \in DOMAIN prev : prev[g].seqId < FirstSeqId(prev)
<1>1. CASE DOMAIN prev = {}
  BY <1>1 DEF FirstSeqId
<1>2. CASE DOMAIN prev # {}
  <2> DEFINE Ids == {prev[g].seqId : g \in DOMAIN prev}
  <2>1. /\ Ids \subseteq Nat
        /\ \E x \in Ids : \A y \in Ids : x >= y
    BY <1>2, PreviousAssumption
  <2>2. Max(Ids) \in Ids /\ \A y \in Ids : Max(Ids) >= y
    BY <2>1 DEF Max
  <2>3. FirstSeqId(prev) = Max(Ids) + 1
    BY <1>2 DEF FirstSeqId
  <2>4. \A g \in DOMAIN prev : prev[g].seqId \in Ids
    OBVIOUS
  <2> HIDE DEF Ids
  <2>5. PICK m \in Nat : m = Max(Ids)
    BY Zenon, <2>1, <2>2
  <2>6. \A g \in DOMAIN prev : prev[g].seqId \in Nat /\ m >= prev[g].seqId
    BY Zenon, <2>1, <2>2, <2>4, <2>5
  <2>7. FirstSeqId(prev) = m + 1
    BY <2>3, <2>5
  <2>8. QED
    BY <2>6, <2>7
<1>3. QED
  BY <1>1, <1>2

(* There are more new files before a later place than before the place of a
   new file. *)
LEMMA NewBeforeGrows ==
    ASSUME NEW all \in Seq(DOMAIN FileSize), NEW prev,
           NEW i \in DOMAIN all, NEW j \in 1 .. (Len(all) + 1), i < j, IsNew(all[i], prev)
    PROVE  /\ Cardinality(NewBefore(i, all, prev)) \in Nat
           /\ Cardinality(NewBefore(j, all, prev)) \in Nat
           /\ Cardinality(NewBefore(i, all, prev)) < Cardinality(NewBefore(j, all, prev))
<1> DEFINE I == NewBefore(i, all, prev)
           J == NewBefore(j, all, prev)
<1>1. Len(all) \in Nat /\ DOMAIN all = 1 .. Len(all) /\ i \in Nat /\ j \in Nat
  OBVIOUS
<1>2. I \subseteq J /\ i \in J /\ i \notin I
  BY <1>1 DEF NewBefore
<1>3. J \subseteq 1 .. (j - 1) /\ IsFiniteSet(1 .. (j - 1))
  <2>1. J \subseteq 1 .. (j - 1)
    BY DEF NewBefore
  <2>2. 1 \in Int /\ j - 1 \in Int
    BY <1>1
  <2>3. QED
    BY Zenon, <2>1, <2>2, FS_Interval
<1>4. IsFiniteSet(J) /\ IsFiniteSet(I)
  BY <1>2, <1>3, FS_Subset
<1>5. Cardinality(I \cup {i}) = Cardinality(I) + 1
  BY Zenon, <1>2, <1>4, FS_AddElement
<1>6. I \cup {i} \subseteq J
  BY <1>2
<1>7. Cardinality(I \cup {i}) <= Cardinality(J)
  BY <1>4, <1>6, FS_Subset
<1>8. Cardinality(I) \in Nat /\ Cardinality(J) \in Nat
  BY <1>4, FS_CardinalityType
<1>9. QED
  BY <1>5, <1>7, <1>8

(* The ids that setPreviouslyReceivedChunks gives out. *)
LEMMA RecreatedIds ==
    ASSUME NEW all \in Seq(DOMAIN FileSize), NEW prev, NEW first \in Nat
    PROVE  LET r == Recreated(all, prev, first)
           IN  /\ DOMAIN r.seqId = Queued(all, prev)
               /\ r.nextSeqId \in Nat /\ first <= r.nextSeqId
               /\ \A f \in Queued(all, prev) :
                     IF IsNew(f, prev)
                     THEN r.seqId[f] \in Nat /\ first <= r.seqId[f] /\ r.seqId[f] < r.nextSeqId
                     ELSE r.seqId[f] = prev[f].seqId
               /\ \A f, g \in Queued(all, prev) :
                     IsNew(f, prev) /\ IsNew(g, prev) /\ f # g => r.seqId[f] # r.seqId[g]
<1> DEFINE r == Recreated(all, prev, first)
           place(f) == CHOOSE i \in DOMAIN all : all[i] = f
           before(i) == Cardinality(NewBefore(i, all, prev))
<1>1. /\ r.seqId = [f \in Queued(all, prev) |->
                       IF IsNew(f, prev) THEN first + before(place(f)) ELSE prev[f].seqId]
      /\ r.nextSeqId = first + before(Len(all) + 1)
  BY Zenon DEF Recreated
<1>2. \A f \in Queued(all, prev) : place(f) \in DOMAIN all /\ all[place(f)] = f
  BY DEF Queued, Range
<1>3. Len(all) \in Nat /\ DOMAIN all = 1 .. Len(all)
  OBVIOUS
<1>4. before(Len(all) + 1) \in Nat
  <2>1. NewBefore(Len(all) + 1, all, prev) \subseteq 1 .. (Len(all) + 1 - 1)
    BY DEF NewBefore
  <2>2. IsFiniteSet(1 .. (Len(all) + 1 - 1))
    BY <1>3, FS_Interval
  <2>3. QED
    BY <2>1, <2>2, FS_Subset, FS_CardinalityType
<1>5. \A f \in Queued(all, prev) : IsNew(f, prev) =>
         before(place(f)) \in Nat /\ before(place(f)) < before(Len(all) + 1)
  <2> SUFFICES ASSUME NEW f \in Queued(all, prev), IsNew(f, prev)
               PROVE  before(place(f)) \in Nat /\ before(place(f)) < before(Len(all) + 1)
    BY Zenon
  <2>1. /\ place(f) \in DOMAIN all /\ IsNew(all[place(f)], prev)
        /\ Len(all) + 1 \in 1 .. (Len(all) + 1) /\ place(f) < Len(all) + 1
    BY <1>2, <1>3
  <2> HIDE DEF place
  <2>2. QED
    BY <2>1, NewBeforeGrows
<1>6. \A f, g \in Queued(all, prev) :
         IsNew(f, prev) /\ IsNew(g, prev) /\ f # g => before(place(f)) # before(place(g))
  <2> SUFFICES ASSUME NEW f \in Queued(all, prev), NEW g \in Queued(all, prev),
                      IsNew(f, prev), IsNew(g, prev), f # g
               PROVE  before(place(f)) # before(place(g))
    BY Zenon
  <2>1. /\ place(f) \in DOMAIN all /\ IsNew(all[place(f)], prev)
        /\ place(g) \in DOMAIN all /\ IsNew(all[place(g)], prev)
        /\ place(f) # place(g)
    BY <1>2
  <2> HIDE DEF place
  <2>2. /\ place(f) \in 1 .. (Len(all) + 1) /\ place(g) \in 1 .. (Len(all) + 1)
        /\ place(f) < place(g) \/ place(g) < place(f)
    BY <1>3, <2>1
  <2>3. CASE place(f) < place(g)
    <3>1. before(place(f)) \in Nat /\ before(place(g)) \in Nat /\ before(place(f)) < before(place(g))
      BY <2>1, <2>2, <2>3, NewBeforeGrows
    <3>2. QED
      BY <3>1
  <2>4. CASE place(g) < place(f)
    <3>1. before(place(f)) \in Nat /\ before(place(g)) \in Nat /\ before(place(g)) < before(place(f))
      BY <2>1, <2>2, <2>4, NewBeforeGrows
    <3>2. QED
      BY <3>1
  <2>5. QED
    BY <2>2, <2>3, <2>4
<1> HIDE DEF r, place, before
<1>7. QED
  BY <1>1, <1>4, <1>5, <1>6 DEF r

(* The blocks of the files and the deletions are counted one by one. *)
LEMMA MadeCount ==
    ASSUME NEW all \in Seq(DOMAIN FileSize), NEW prev \in Previous \cup {<<>>}, NEW finished
    PROVE  /\ IsFiniteSet(Made(all, prev, finished))
           /\ Cardinality(Made(all, prev, finished))
                 = Cardinality(BlocksOfFiles(all, prev))
                      + Cardinality(Deletions(all, prev, finished))
<1> DEFINE B == BlocksOfFiles(all, prev)
           E == Deletions(all, prev, finished)
           D == {Deletion(f) : f \in E}
<1>1. IsFiniteSet(B) /\ IsFiniteSet(E) /\ IsFiniteSet(D) /\ Cardinality(D) = Cardinality(E)
  BY BlocksFinite, DeletionsFinite, DeletionsCount
<1>2. B \cap D = {}
  <2> SUFFICES ASSUME NEW b \in B, b \in D PROVE FALSE
    OBVIOUS
  <2>1. b.del = TRUE
    BY BlockFields
  <2>2. b.del = FALSE
    BY BlockFields DEF BlocksOfFiles
  <2>3. QED
    BY <2>1, <2>2
<1>3. Made(all, prev, finished) = B \cup D
  BY DEF Made
<1> HIDE DEF B, E, D
<1>4. Cardinality(B \cap D) = 0
  BY <1>2, FS_EmptySet, Zenon
<1>5. /\ IsFiniteSet(B \cup D)
      /\ Cardinality(B \cup D) = Cardinality(B) + Cardinality(D) - Cardinality(B \cap D)
  BY <1>1, FS_Union
<1>6. Cardinality(B) \in Nat /\ Cardinality(D) \in Nat
  BY <1>1, FS_CardinalityType
<1>7. Cardinality(B \cup D) = Cardinality(B) + Cardinality(E)
  BY <1>1, <1>4, <1>5, <1>6
<1>8. QED
  BY <1>3, <1>5, <1>7 DEF B, E

(* setPreviouslyReceivedChunks makes all blocks anew, before anyone took one. *)
LEMMA SetChunksStep ==
    ASSUME QueueInv, NEW prev \in Previous, SetPreviouslyReceivedChunks(prev)
    PROVE  LET E == Deletions(found, prev, initFinished)
               r == Recreated(found, prev, FirstSeqId(prev))
           IN  /\ queue' = Made(found, prev, initFinished)
               /\ numBlocks' = Cardinality(BlocksOfFiles(found, prev)) + Cardinality(E)
               /\ DOMAIN seqId' = Queued(found, prev) \cup E
               /\ \A f \in Queued(found, prev) : seqId'[f] = r.seqId[f]
               /\ \A f \in E : seqId'[f] = prev[f].seqId /\ f \notin Range(found)
               /\ nextSeqId' = r.nextSeqId
<1> USE DEF QueueInv
<1> DEFINE E == Deletions(found, prev, initFinished)
           B == BlocksOfFiles(found, prev)
           r == Recreated(found, prev, FirstSeqId(prev))
           acc == EnqueueFilesToBeDeleted(r, prev, found, initFinished)
<1>0. queue' = acc.queue /\ numBlocks' = acc.numBlocks /\ seqId' = acc.seqId
         /\ nextSeqId' = acc.nextSeqId
  BY DEF SetPreviouslyReceivedChunks, SetAcc
<1>1. r.queue = B /\ r.numBlocks = Cardinality(B) /\ DOMAIN r.seqId = Queued(found, prev)
  BY Zenon DEF Recreated, BlocksOfFiles
<1>2. r = [queue |-> r.queue, numBlocks |-> r.numBlocks, seqId |-> r.seqId,
           nextSeqId |-> r.nextSeqId]
  BY Zenon DEF Recreated
<1>3. Made(found, prev, initFinished) = B \cup {Deletion(f) : f \in E}
  BY DEF Made
<1>4. \A f \in E : f \notin Range(found) /\ f \notin Queued(found, prev)
  BY DEF Deletions, ExtraFiles, Queued
<1> HIDE DEF r, B
<1>5. CASE DeleteExtra /\ initFinished
  <2>1. E = ExtraFiles(prev, found)
    BY <1>5 DEF Deletions
  <2>2. acc = [r EXCEPT !.queue = r.queue \cup {Deletion(f) : f \in E},
                        !.numBlocks = r.numBlocks + Cardinality(E),
                        !.seqId = [f \in DOMAIN r.seqId \cup E |->
                                      IF f \in E THEN prev[f].seqId ELSE r.seqId[f]]]
    BY Zenon, <1>5, <2>1 DEF EnqueueFilesToBeDeleted
  <2> HIDE DEF E, acc
  <2>3. /\ acc.queue = r.queue \cup {Deletion(f) : f \in E}
        /\ acc.numBlocks = r.numBlocks + Cardinality(E)
        /\ acc.seqId = [f \in DOMAIN r.seqId \cup E |->
                           IF f \in E THEN prev[f].seqId ELSE r.seqId[f]]
        /\ acc.nextSeqId = r.nextSeqId
    BY <1>2, <2>2
  <2>4. QED
    BY Zenon, <1>0, <1>1, <1>3, <1>4, <2>3 DEF E, B, r
<1>6. CASE ~(DeleteExtra /\ initFinished)
  <2>1. E = {} /\ acc = r
    BY <1>6 DEF Deletions, EnqueueFilesToBeDeleted
  <2>2. IsFiniteSet(B)
    BY Zenon, BlocksFinite DEF DiscInv, B
  <2> HIDE DEF E, acc
  <2>3. Cardinality(E) = 0
    BY <2>1, FS_EmptySet, Zenon
  <2>4. Cardinality(B) + Cardinality(E) = Cardinality(B)
    BY <2>2, <2>3, FS_CardinalityType
  <2>5. QED
    BY Zenon, <1>0, <1>1, <1>3, <2>1, <2>4 DEF E, B, r
<1>7. QED
  BY Zenon, <1>5, <1>6

(* Before the list has come nobody has anything, and all blocks are queued. *)
LEMMA NothingTaken ==
    ASSUME QueueInv, Resume, ~chunksSet
    PROVE  /\ \A t \in Threads : opening[t] = {} /\ held[t] = {} /\ pc[t] # "null"
           /\ sent = {} /\ failed = {} /\ Sources = queue
           /\ Held \cup sent = {}
<1> USE DEF QueueInv
<1>1. \A t \in Threads : opening[t] = {} /\ held[t] = {} /\ pc[t] # "null"
  BY DEF PrevInv, ThreadInv
<1>2. sent = {} /\ failed = {}
  BY DEF PrevInv
<1>3. QED
  BY <1>1, <1>2 DEF Sources, Opening, Held

(* setPreviouslyReceivedChunks, which rebuilds the queue, keeps the invariant. *)
LEMMA SetChunksInv ==
    ASSUME QueueInv, SetChunks
    PROVE  QueueInv'
<1> USE DEF QueueInv
<1>1. PICK prev \in Previous : SetPreviouslyReceivedChunks(prev)
  BY DEF SetChunks
<1> DEFINE E == Deletions(found, prev, initFinished)
           r == Recreated(found, prev, FirstSeqId(prev))
<1>2. /\ Resume /\ ~chunksSet /\ chunksSet' = TRUE /\ previous' = prev
      /\ UNCHANGED <<dequeued, found, initFinished, disc, failed, pc, opening, held, sent>>
  BY <1>1 DEF SetPreviouslyReceivedChunks, discVars, threadVars
<1>3. /\ \A t \in Threads : opening[t] = {} /\ held[t] = {}
      /\ sent = {} /\ failed = {} /\ Held \cup sent = {}
  BY <1>2, NothingTaken
<1>4. /\ queue' = Made(found, prev, initFinished)
      /\ numBlocks' = Cardinality(BlocksOfFiles(found, prev)) + Cardinality(E)
      /\ DOMAIN seqId' = Queued(found, prev) \cup E
      /\ \A f \in Queued(found, prev) : seqId'[f] = r.seqId[f]
      /\ \A f \in E : seqId'[f] = prev[f].seqId /\ f \notin Range(found)
      /\ nextSeqId' = r.nextSeqId
  BY Zenon, <1>1, SetChunksStep
<1>5. ThreadInv' /\ PrevInv' /\ DiscInv'
  BY <1>2, AllSourcesConstant DEF ThreadInv, PrevInv, DiscInv
<1>6. Sources' = queue' /\ InOnePlace' /\ Held' \cup sent' = {}
  <2>1. \A t \in Threads : opening'[t] = {} /\ held'[t] = {}
    BY <1>2, <1>3
  <2>2. sent' = {} /\ failed' = {}
    BY <1>2, <1>3
  <2>3. QED
    BY <2>1, <2>2 DEF Sources, Opening, Held, InOnePlace, With
<1>7. MadeInv'
  BY Zenon, <1>2, <1>4, <1>6 DEF MadeInv
<1>8. CountInv'
  <2>1. /\ IsFiniteSet(queue') /\ numBlocks' = Cardinality(queue')
    BY <1>4, MadeCount DEF DiscInv
  <2>2. dequeued' = Cardinality(Held' \cup sent')
    <3>1. dequeued = Cardinality({})
      BY <1>3 DEF CountInv
    <3>2. QED
      BY <1>2, <1>6, <3>1
  <2>3. QED
    BY <1>6, <2>1, <2>2 DEF CountInv
<1>9. IdInv'
  <2>1. /\ FirstSeqId(prev) \in Nat
        /\ \A g \in DOMAIN prev : prev[g].seqId \in Nat /\ prev[g].seqId < FirstSeqId(prev)
    BY FirstSeqIdAbove, PreviousAssumption
  <2>2. /\ r.nextSeqId \in Nat /\ FirstSeqId(prev) <= r.nextSeqId
        /\ \A f \in Queued(found, prev) :
              IF IsNew(f, prev)
              THEN /\ r.seqId[f] \in Nat /\ FirstSeqId(prev) <= r.seqId[f]
                   /\ r.seqId[f] < r.nextSeqId
              ELSE r.seqId[f] = prev[f].seqId
        /\ \A f, g \in Queued(found, prev) :
              IsNew(f, prev) /\ IsNew(g, prev) /\ f # g => r.seqId[f] # r.seqId[g]
    BY <2>1, RecreatedIds DEF DiscInv
  <2>3. \A f \in Queued(found, prev) : f \in Range(found) /\ (~IsNew(f, prev) => f \in DOMAIN prev)
    BY DEF Queued, IsNew
  <2>4. \A f \in E : f \in DOMAIN prev
    BY DEF Deletions, ExtraFiles
  <2> HIDE DEF E, r
  <2>5. nextSeqId' \in Nat /\ \A g \in DOMAIN prev : prev[g].seqId < nextSeqId'
    <3>1. nextSeqId' = r.nextSeqId
      BY Zenon, <1>4
    <3>2. PICK a \in Nat, b \in Nat : a = FirstSeqId(prev) /\ b = r.nextSeqId /\ a <= b
      BY Zenon, <2>1, <2>2
    <3>3. \A x \in Nat : x < a => x < b
      BY <3>2
    <3>4. QED
      BY Zenon, <2>1, <3>1, <3>2, <3>3
  <2>6. \A f \in Queued(found, prev) :
           IF IsNew(f, prev)
           THEN /\ seqId'[f] \in Nat /\ seqId'[f] < nextSeqId'
                /\ \A g \in DOMAIN prev : prev[g].seqId < seqId'[f]
           ELSE f \in DOMAIN prev /\ seqId'[f] = prev[f].seqId
    BY <1>4, <2>1, <2>2, <2>3
  <2>7. \A f \in DOMAIN seqId' :
           IF f \in Range(found) /\ IsNew(f, prev)
           THEN /\ seqId'[f] \in Nat /\ seqId'[f] < nextSeqId'
                /\ \A g \in DOMAIN prev : prev[g].seqId < seqId'[f]
           ELSE f \in DOMAIN prev /\ seqId'[f] = prev[f].seqId
    BY Zenon, <1>4, <2>3, <2>4, <2>6
  <2>8. \A f, g \in DOMAIN seqId' :
           /\ f \in Range(found) /\ IsNew(f, prev) /\ g \in Range(found) /\ IsNew(g, prev)
           /\ f # g
           => seqId'[f] # seqId'[g]
    BY Zenon, <1>4, <2>2
  <2>9. QED
    BY Zenon, <1>2, <1>4, <2>5, <2>7, <2>8 DEF IdInv, E
<1>10. QED
  BY <1>5, <1>6, <1>7, <1>8, <1>9

-----------------------------------------------------------------------------
(* The invariant and what follows from it *)

(* The queue starts in the invariant. *)
LEMMA QueueInit == Init => QueueInv
<1> SUFFICES ASSUME Init PROVE QueueInv
  OBVIOUS
<1>1. /\ Batches \in Seq(SUBSET DOMAIN FileSize) /\ Len(Batches) \in Nat /\ Len(Batches) # 0
      /\ DOMAIN Batches = 1 .. Len(Batches)
  BY BatchesAssumption
<1>2. 1 \in DOMAIN Batches /\ Batches[1] \in SUBSET DOMAIN FileSize
  BY <1>1
<1>3. DiscInv
  <2>1. <<>> \in Seq(DOMAIN FileSize) /\ DOMAIN <<>> = {}
    OBVIOUS
  <2>2. QED
    BY Zenon, <1>1, <1>2, <2>1 DEF Init, DiscInv, DiscSteps
<1>4. ThreadInv /\ PrevInv /\ InOnePlace
  BY Zenon DEF Init, ThreadInv, PrevInv, InOnePlace, With, Places
<1>5. Sources = {} /\ Held \cup sent = {}
  BY DEF Init, Sources, Opening, Held
<1>6. /\ Queued(found, previous) = {}
      /\ Deletions(found, previous, initFinished) = {}
      /\ DOMAIN seqId = {} /\ DOMAIN previous = {}
  BY DEF Init, Queued, Range, Deletions
<1>7. MadeInv
  <2>1. \A b : b \notin Made(found, previous, initFinished)
    BY <1>6, MadeMembers
  <2>2. QED
    BY <1>5, <2>1 DEF MadeInv
<1>8. CountInv
  <2>1. numBlocks = 0 /\ dequeued = 0
    BY DEF Init
  <2>2. QED
    BY <1>5, <2>1, FS_EmptySet, Zenon DEF CountInv
<1>9. IdInv
  <2>1. nextSeqId = 1
    BY DEF Init
  <2>2. QED
    BY Zenon, <1>6, <2>1 DEF IdInv
<1>10. QED
  BY <1>3, <1>4, <1>7, <1>8, <1>9 DEF QueueInv

(* Every step of a sender thread or of the discovery keeps the invariant. *)
LEMMA QueueNext == QueueInv /\ [Next]_vars => QueueInv'
<1> SUFFICES ASSUME QueueInv, [Next]_vars PROVE QueueInv'
  OBVIOUS
<1>1. ASSUME NEW f \in disc.left, Discover(f) PROVE QueueInv'
  BY <1>1, DiscoverInv
<1>2. CASE \/ \E f \in disc.left : DiscoverFails(f)
           \/ AbortDiscovery \/ EndOfBatch \/ ReadActiveThreads
           \/ CheckPreviousTransfer \/ PollPreviousTransfer \/ Generate
  BY <1>2, ControlSteps, ControlInv
<1>3. CASE FinishDiscovery
  BY <1>3, FinishDiscoveryInv
<1>4. CASE SetChunks
  BY <1>4, SetChunksInv
<1>5. ASSUME NEW t \in Threads, Work(t) PROVE QueueInv'
  BY <1>5, GetNextSourceInv, OpenedInv, OpenFailsInv, AcknowledgeInv, ReturnToQueueInv,
     SmartNotifyInv, EndInv DEF Work
<1>6. CASE UNCHANGED vars
  <2>1. UNCHANGED <<threadVars, queueVars, fileVars, discVars, failed>>
    BY <1>6 DEF vars
  <2>2. UNCHANGED initFinished
    BY <2>1 DEF discVars
  <2>3. DiscInv'
    BY <2>1, DiscUnchanged DEF QueueInv
  <2>4. QED
    BY <2>1, <2>2, <2>3, ControlInv
<1>7. QED
  BY <1>1, <1>2, <1>3, <1>4, <1>5, <1>6 DEF Next, Discovery

(* The queue's invariant: every block made is in exactly one place, and the
   places, the counters and the ids follow the files found and the list of
   chunks (all operations of DirectorySourceQueue). *)
THEOREM QueueInvariant == Spec => []QueueInv
<1>1. QED
  BY QueueInit, QueueNext, PTL DEF Spec

(* numBlocks_ and numBlocksDequeued_ are exact at every moment, and no block is
   with two threads (getNextSource, returnToQueue, createIntoQueueInternal,
   enqueueFilesToBeDeleted, setPreviouslyReceivedChunks). *)
THEOREM CountersExact == Spec => []EveryBlockOnce
<1>1. QueueInv => EveryBlockOnce
  BY DEF QueueInv, CountInv, EveryBlockOnce
<1>2. QED
  BY <1>1, QueueInvariant, PTL

(* What the receiver keeps of a file and the blocks made of it are the whole
   file, without overlap, whether the file was found before or after the list
   of chunks came (createIntoQueueInternal, setPreviouslyReceivedChunks). *)
THEOREM FilesSentWhole == Spec => []FilesComplete
<1>1. QueueInv => FilesComplete
  <2> SUFFICES ASSUME QueueInv, NEW f \in Range(found)
               PROVE  Completes({b \in Sources : b.file = f /\ ~b.del}, f, previous)
    BY DEF FilesComplete
  <2>1. f \in DOMAIN FileSize /\ previous \in Previous \cup {<<>>}
    BY DEF QueueInv, DiscInv, PrevInv, Range
  <2>2. ASSUME NEW b \in Sources, b.file = f, ~b.del
        PROVE  b \in SourcesOf(f, previous)
    BY <2>2, MadeMembers, BlockFields DEF QueueInv, MadeInv
  <2>3. ASSUME NEW b \in SourcesOf(f, previous)
        PROVE  b \in Sources /\ b.file = f /\ ~b.del
    <3>1. f \in Queued(found, previous)
      BY <2>1, SplitAssumption DEF Queued
    <3>2. QED
      BY <3>1, MadeMembers, BlockFields DEF QueueInv, MadeInv
  <2>4. {b \in Sources : b.file = f /\ ~b.del} = SourcesOf(f, previous)
    BY <2>2, <2>3
  <2>5. Completes(SourcesOf(f, previous), f, previous)
    BY <2>1, SplitAssumption
  <2>6. QED
    BY <2>4, <2>5, Zenon
<1>2. QED
  BY <1>1, QueueInvariant, PTL

(* Two files never share a sequence id, and a file sent anew never takes the id
   of a file of the receiver (createIntoQueueInternal, enqueueFilesToBeDeleted,
   setPreviouslyReceivedChunks). *)
THEOREM SequenceIdsDistinct == Spec => []SeqIdsDistinct
<1>1. QueueInv => SeqIdsDistinct
  <2> SUFFICES ASSUME QueueInv PROVE SeqIdsDistinct
    OBVIOUS
  <2> DEFINE new(f) == f \in Range(found) /\ IsNew(f, previous)
  <2>1. \A f \in DOMAIN seqId : new(f) =>
           seqId[f] \in Nat /\ \A g \in DOMAIN previous : previous[g].seqId < seqId[f]
    BY Zenon DEF QueueInv, IdInv
  <2>2. \A f \in DOMAIN seqId : ~new(f) => f \in DOMAIN previous /\ seqId[f] = previous[f].seqId
    BY Zenon DEF QueueInv, IdInv
  <2>3. \A f, g \in DOMAIN seqId : new(f) /\ new(g) /\ f # g => seqId[f] # seqId[g]
    BY Zenon DEF QueueInv, IdInv
  <2>4. /\ \A f \in DOMAIN previous : previous[f].seqId \in Nat
        /\ \A f, g \in DOMAIN previous : f # g => previous[f].seqId # previous[g].seqId
    BY PreviousType DEF QueueInv, PrevInv
  <2>5. \A f \in DOMAIN seqId : new(f) => \A g \in DOMAIN previous : seqId[f] # previous[g].seqId
    BY <2>1, <2>4
  <2>6. \A f, g \in DOMAIN seqId : f # g => seqId[f] # seqId[g]
    BY <2>2, <2>3, <2>4, <2>5
  <2>7. QED
    BY <2>5, <2>6 DEF SeqIdsDistinct
<1>2. QED
  BY <1>1, QueueInvariant, PTL

-----------------------------------------------------------------------------
(* The queue implements the pool *)

(* What a thread has in the pool, and who was told that nothing is left. *)
PoolHeld == [t \in Threads |-> held[t] \cup opening[t]]
PoolDismissed == {t \in Threads : pc[t] = "null"}

(* What the pool knows of are the blocks of the queue. *)
LEMMA PoolKnown == Pool!Known = Sources
BY DEF Pool!Known, Sources, Opening, Held

(* One step of the pool, in the variables of the queue. *)
LEMMA PoolStutter ==
    ASSUME UNCHANGED <<queue, initFinished>>, PoolHeld' = PoolHeld,
           sent' \cup failed' = sent \cup failed, PoolDismissed' = PoolDismissed
    PROVE  UNCHANGED Pool!vars
BY DEF Pool!vars, PoolHeld, PoolDismissed

(* Blocks that are new enter the queue: buildQueueAsynchronously is still at work. *)
LEMMA PoolAdd ==
    ASSUME NEW N \in SUBSET AllSources, N \cap Sources = {}, ~initFinished,
           queue' = queue \cup N, UNCHANGED <<opening, held, sent, failed>>,
           PoolDismissed' = PoolDismissed
    PROVE  /\ initFinished' = initFinished => Pool!Next
           /\ initFinished' = TRUE => Pool!Next
<1>1. N \cap Pool!Known = {}
  BY PoolKnown
<1>2. [t \in Threads |-> held[t] \cup opening[t]]' = [t \in Threads |-> held[t] \cup opening[t]]
  OBVIOUS
<1>3. {t \in Threads : pc[t] = "null"}' = {t \in Threads : pc[t] = "null"}
  BY DEF PoolDismissed
<1>4. (sent \cup failed)' = sent \cup failed
  OBVIOUS
<1>5. ASSUME initFinished' = initFinished PROVE Pool!Next
  <2>1. Pool!Add(N)
    BY Zenon, <1>1, <1>2, <1>3, <1>4, <1>5 DEF Pool!Add
  <2>2. QED
    BY Zenon, <2>1 DEF Pool!Next
<1>6. ASSUME initFinished' = TRUE PROVE Pool!Next
  <2>1. Pool!Close(N)
    BY Zenon, <1>1, <1>2, <1>3, <1>4, <1>6 DEF Pool!Close
  <2>2. QED
    BY <2>1 DEF Pool!Next
<1>7. QED
  BY Zenon, <1>5, <1>6

(* Waking threads dismisses none. *)
LEMMA WokenDismissesNone ==
    ASSUME ThreadInv, NEW S \in SUBSET Waiting, pc' = Woken(pc, S)
    PROVE  PoolDismissed' = PoolDismissed
<1>1. \A u \in Threads : Woken(pc, S)[u] = "null" <=> pc[u] = "null"
  BY WokenType DEF ThreadInv
<1>2. QED
  BY <1>1 DEF PoolDismissed

(* The discovery adds blocks that were in no place, and closes the pool. *)
LEMMA DiscoveryIsPool ==
    ASSUME QueueInv, Discovery
    PROVE  [Pool!Next]_Pool!vars
<1> USE DEF QueueInv
<1>1. ASSUME NEW f \in disc.left, Discover(f) PROVE Pool!Next
  <2>1. /\ queue' = queue \cup SourcesOf(f, previous)
        /\ SourcesOf(f, previous) \cap Sources = {}
        /\ f \in DOMAIN FileSize /\ ~initFinished
        /\ \E S \in SUBSET Waiting : pc' = Woken(pc, S)
        /\ UNCHANGED <<initFinished, failed, opening, held, sent>>
    BY Zenon, <1>1, DiscoverStep
  <2>2. SourcesOf(f, previous) \in SUBSET AllSources
    BY <2>1 DEF AllSources, PrevInv
  <2>3. PoolDismissed' = PoolDismissed
    BY Zenon, <2>1, WokenDismissesNone
  <2>4. QED
    BY Zenon, <2>1, <2>2, <2>3, PoolAdd
<1>2. CASE FinishDiscovery
  <2> DEFINE N == {Deletion(f) : f \in Deletions(found, previous, TRUE)}
  <2>1. /\ queue' = queue \cup N /\ N \cap Sources = {} /\ N \in SUBSET AllSources
        /\ ~initFinished /\ initFinished'
        /\ \E S \in SUBSET Waiting : pc' = Woken(pc, S)
        /\ UNCHANGED <<failed, opening, held, sent>>
    BY Zenon, <1>2, FinishDiscoveryStep
  <2>2. initFinished' = TRUE
    BY <1>2 DEF FinishDiscovery
  <2>3. PoolDismissed' = PoolDismissed
    BY <2>1, WokenDismissesNone
  <2> HIDE DEF N
  <2>4. QED
    BY Zenon, <2>1, <2>2, <2>3, PoolAdd
<1>3. CASE \/ \E f \in disc.left : DiscoverFails(f)
           \/ AbortDiscovery \/ EndOfBatch \/ ReadActiveThreads
           \/ CheckPreviousTransfer \/ PollPreviousTransfer \/ Generate
  <2>1. UNCHANGED <<threadVars, queueVars, initFinished, failed>>
    BY <1>3, ControlSteps
  <2>2. UNCHANGED <<queue, initFinished, failed, pc, opening, held, sent>>
    BY <2>1 DEF threadVars, queueVars
  <2>3. QED
    BY <2>2, PoolStutter DEF PoolHeld, PoolDismissed
<1>4. QED
  BY Zenon, <1>1, <1>2, <1>3 DEF Discovery

(* The list of chunks replaces the blocks that nobody took. *)
LEMMA SetChunksIsPool ==
    ASSUME QueueInv, SetChunks
    PROVE  Pool!Next
<1> USE DEF QueueInv
<1>1. PICK prev \in Previous : SetPreviouslyReceivedChunks(prev)
  BY DEF SetChunks
<1>2. /\ Resume /\ ~chunksSet
      /\ UNCHANGED <<initFinished, failed, pc, opening, held, sent>>
  BY <1>1 DEF SetPreviouslyReceivedChunks, discVars, threadVars
<1>3. Sources = queue /\ \A t \in Threads : pc[t] # "null"
  BY <1>2, NothingTaken
<1>4. queue' \in SUBSET AllSources
  <2>1. queue' = Made(found, prev, initFinished)
    BY Zenon, <1>1, SetChunksStep
  <2>2. QED
    BY <2>1, MadeInAllSources DEF DiscInv
<1>5. queue = Pool!Known
  BY <1>3, PoolKnown
<1>6. Pool!Replace(queue')
  BY Zenon, <1>2, <1>3, <1>5 DEF Pool!Replace
<1>7. QED
  BY <1>4, <1>6 DEF Pool!Next

(* A thread takes a block, is told that nothing is left, settles or returns
   what it has, or does something the pool does not see. *)
LEMMA WorkIsPool ==
    ASSUME QueueInv, NEW t \in Threads, Work(t)
    PROVE  [Pool!Next]_Pool!vars
<1> USE DEF QueueInv
<1>0. /\ held \in [Threads -> SUBSET AllSources] /\ opening \in [Threads -> SUBSET AllSources]
      /\ pc \in [Threads -> Places]
      /\ \A u \in Threads : pc[u] # "opening" => opening[u] = {}
  BY DEF ThreadInv
<1>1. CASE GetNextSource(t)
  <2>0. /\ UNCHANGED <<initFinished, failed, held, sent>>
        /\ pc[t] \in {"idle", "again", "woken"}
    BY <1>1 DEF GetNextSource, discVars
  <2>1. CASE queue = {}
    <3>1. /\ pc' = [pc EXCEPT ![t] = IF initFinished THEN "null" ELSE "waiting"]
          /\ UNCHANGED <<queue, opening>>
      BY <1>1, <2>1 DEF GetNextSource, TakeNext
    <3>2. CASE initFinished
      <4>1. PoolDismissed' = PoolDismissed \cup {t}
        BY <1>0, <2>0, <3>1, <3>2 DEF PoolDismissed
      <4>2. Pool!Dismiss(t)
        BY <2>0, <2>1, <3>1, <3>2, <4>1 DEF Pool!Dismiss, PoolDismissed
      <4>3. QED
        BY Zenon, <4>2 DEF Pool!Next
    <3>3. CASE ~initFinished
      <4>1. PoolDismissed' = PoolDismissed
        BY <1>0, <2>0, <3>1, <3>3 DEF PoolDismissed
      <4>2. QED
        BY Zenon, <2>0, <3>1, <4>1, PoolStutter DEF PoolHeld
    <3>4. QED
      BY <3>2, <3>3
  <2>2. CASE queue # {}
    <3>1. PICK b \in queue :
             /\ queue' = queue \ {b}
             /\ opening' = [opening EXCEPT ![t] = {b}]
             /\ pc' = [Woken(pc, IF initFinished /\ queue' = {} THEN Waiting ELSE {})
                          EXCEPT ![t] = "opening"]
      BY <1>1, <2>2 DEF GetNextSource, TakeNext
    <3>2. PoolHeld' = [PoolHeld EXCEPT ![t] = @ \cup {b}]
      BY Zenon, <1>0, <2>0, <3>1 DEF PoolHeld
    <3>3. PoolDismissed' = PoolDismissed
      <4>1. PICK S \in SUBSET Waiting : pc' = [Woken(pc, S) EXCEPT ![t] = "opening"]
        BY <3>1
      <4>2. /\ Woken(pc, S) \in [Threads -> Places]
            /\ \A u \in Threads : Woken(pc, S)[u] = "null" <=> pc[u] = "null"
        BY <1>0, WokenType
      <4>3. QED
        BY <2>0, <4>1, <4>2 DEF PoolDismissed
    <3>4. Pool!Take(t, b)
      BY Zenon, <2>0, <3>1, <3>2, <3>3 DEF Pool!Take, PoolHeld, PoolDismissed
    <3>5. QED
      BY Zenon, <3>4 DEF Pool!Next
  <2>3. QED
    BY <2>1, <2>2
<1>2. CASE Opened(t)
  <2>1. /\ UNCHANGED <<queue, initFinished, failed, sent>>
        /\ pc[t] = "opening" /\ pc' = [pc EXCEPT ![t] = "idle"]
        /\ held' = [held EXCEPT ![t] = held[t] \cup opening[t]]
        /\ opening' = [opening EXCEPT ![t] = {}]
    BY <1>2 DEF Opened, discVars
  <2>2. PoolHeld' = PoolHeld /\ PoolDismissed' = PoolDismissed
    BY <1>0, <2>1 DEF PoolHeld, PoolDismissed
  <2>3. QED
    BY <2>1, <2>2, PoolStutter
<1>3. CASE OpenFails(t)
  <2>1. /\ UNCHANGED <<queue, initFinished, held, sent>>
        /\ pc[t] = "opening" /\ pc' = [pc EXCEPT ![t] = "again"]
        /\ failed' = failed \cup opening[t]
        /\ opening' = [opening EXCEPT ![t] = {}]
    BY <1>3 DEF OpenFails, discVars, queueVars
  <2>2. opening[t] \cap held[t] = {}
    BY DEF InOnePlace
  <2>3. PoolHeld' = [PoolHeld EXCEPT ![t] = @ \ opening[t]] /\ PoolDismissed' = PoolDismissed
    BY Zenon, <1>0, <2>1, <2>2 DEF PoolHeld, PoolDismissed
  <2>4. PICK O \in SUBSET PoolHeld[t] : O = opening[t]
    BY DEF PoolHeld
  <2>5. (sent \cup failed)' = (sent \cup failed) \cup O
    BY <2>1, <2>4
  <2>6. Pool!Settle(t, O)
    BY Zenon, <2>1, <2>3, <2>4, <2>5 DEF Pool!Settle, PoolHeld, PoolDismissed
  <2>7. QED
    BY Zenon, <2>4, <2>6 DEF Pool!Next, PoolHeld
<1>4. CASE Acknowledge(t)
  <2>1. /\ UNCHANGED <<queue, initFinished, failed, pc, opening>>
        /\ pc[t] \in {"idle", "null"}
    BY <1>4 DEF Acknowledge, discVars, queueVars
  <2>2. PICK S \in SUBSET held[t] : /\ held' = [held EXCEPT ![t] = held[t] \ S]
                                   /\ sent' = sent \cup S
    BY Zenon, <1>4 DEF Acknowledge
  <2>3. opening[t] = {}
    BY <1>0, <2>1
  <2>4. PoolHeld' = [PoolHeld EXCEPT ![t] = @ \ S] /\ PoolDismissed' = PoolDismissed
    BY Zenon, <1>0, <2>1, <2>2, <2>3 DEF PoolHeld, PoolDismissed
  <2>5. S \subseteq PoolHeld[t]
    BY DEF PoolHeld
  <2>6. (sent \cup failed)' = (sent \cup failed) \cup S
    BY <2>1, <2>2
  <2>7. Pool!Settle(t, S)
    BY Zenon, <2>1, <2>2, <2>4, <2>5, <2>6 DEF Pool!Settle, PoolHeld, PoolDismissed
  <2>8. QED
    BY Zenon, <2>5, <2>7 DEF Pool!Next, PoolHeld
<1>5. CASE ReturnToQueue(t)
  <2>1. /\ UNCHANGED <<initFinished, failed, opening, sent>>
        /\ pc[t] \in {"idle", "null"}
        /\ queue' = queue \cup held[t]
        /\ held' = [held EXCEPT ![t] = {}]
        /\ pc' = [pc EXCEPT ![t] = "notify"]
    BY <1>5 DEF ReturnToQueue, discVars
  <2>2. opening[t] = {}
    BY <1>0, <2>1
  <2>3. /\ PoolHeld[t] = held[t]
        /\ PoolHeld' = [PoolHeld EXCEPT ![t] = {}]
        /\ PoolDismissed' = PoolDismissed \ {t}
    BY Zenon, <1>0, <2>1, <2>2 DEF PoolHeld, PoolDismissed
  <2>4. Pool!Return(t)
    BY Zenon, <2>1, <2>3 DEF Pool!Return, PoolHeld, PoolDismissed
  <2>5. QED
    BY <2>4 DEF Pool!Next
<1>6. CASE SmartNotify(t)
  <2>1. /\ UNCHANGED <<queue, initFinished, failed, opening, held, sent>>
        /\ pc[t] = "notify"
    BY <1>6 DEF SmartNotify, discVars, queueVars
  <2>2. PICK S \in SUBSET Waiting : pc' = [Woken(pc, S) EXCEPT ![t] = "idle"]
    BY Zenon, <1>6, NotifiedWait DEF SmartNotify
  <2>3. /\ Woken(pc, S) \in [Threads -> Places]
        /\ \A u \in Threads : Woken(pc, S)[u] = "null" <=> pc[u] = "null"
    BY <1>0, WokenType
  <2>4. PoolDismissed' = PoolDismissed
    BY <2>1, <2>2, <2>3 DEF PoolDismissed
  <2>5. QED
    BY Zenon, <2>1, <2>4, PoolStutter DEF PoolHeld
<1>7. CASE End(t)
  <2>1. /\ UNCHANGED <<queue, initFinished, failed, opening, held, sent>>
        /\ held[t] = {} /\ pc[t] \in {"null", "idle"}
        /\ pc' = [pc EXCEPT ![t] = "end"]
    BY <1>7 DEF End, discVars, queueVars
  <2>2. opening[t] = {}
    BY <1>0, <2>1
  <2>3. /\ PoolHeld[t] = {}
        /\ PoolHeld' = [PoolHeld EXCEPT ![t] = {}]
        /\ PoolDismissed' = PoolDismissed \ {t}
    BY <1>0, <2>1, <2>2 DEF PoolHeld, PoolDismissed
  <2>4. Pool!Return(t)
    BY Zenon, <2>1, <2>3 DEF Pool!Return, PoolHeld, PoolDismissed
  <2>5. QED
    BY <2>4 DEF Pool!Next
<1>8. QED
  BY <1>1, <1>2, <1>3, <1>4, <1>5, <1>6, <1>7 DEF Work

(* The queue implements the pool of blocks: a block is with one thread until it
   is settled or returned, blocks are added only once and only while the
   discovery runs, they are replaced only before the first is taken, and a
   thread is told that nothing is left only when the discovery is over and the
   queue is empty (all operations of DirectorySourceQueue). *)
THEOREM QueueIsPool == Spec => ImplementsPool
<1>1. Init => Pool!Init
  BY DEF Init, Pool!Init
<1>2. QueueInv /\ [Next]_vars => [Pool!Next]_Pool!vars
  <2> SUFFICES ASSUME QueueInv, [Next]_vars PROVE [Pool!Next]_Pool!vars
    OBVIOUS
  <2>1. CASE Discovery
    BY <2>1, DiscoveryIsPool
  <2>2. CASE SetChunks
    BY <2>2, SetChunksIsPool
  <2>3. ASSUME NEW t \in Threads, Work(t) PROVE [Pool!Next]_Pool!vars
    BY <2>3, WorkIsPool
  <2>4. CASE UNCHANGED vars
    <3>1. UNCHANGED <<queue, initFinished, failed, pc, opening, held, sent>>
      BY <2>4 DEF vars, threadVars, queueVars, discVars
    <3>2. QED
      BY <3>1, PoolStutter DEF PoolHeld, PoolDismissed
  <2>5. QED
    BY <2>1, <2>2, <2>3, <2>4 DEF Next
<1>3. QED
  BY <1>1, <1>2, QueueInvariant, PTL DEF Spec, ImplementsPool, Pool!Spec
=============================================================================

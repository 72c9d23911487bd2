----------------------- MODULE SourceQueueLemmas -----------------------
(***************************************************************************)
(* The inductive invariant of the queue of sources, and that it is kept    *)
(* by the threads that take, open, return and acknowledge blocks and by    *)
(* the discovery of a file.                                                *)
(***************************************************************************)
EXTENDS SourceQueue, FiniteSetTheorems, TLAPS

(* The places of a thread and of the discovery. *)
Places == {"idle", "waiting", "woken", "opening", "again", "notify", "null", "end"}
DiscSteps == {"files", "active", "check", "poll", "generate", "finish", "done"}

(* A thread is between popping a source and opening it exactly when it has
   such a source, which is one. *)
ThreadInv ==
    /\ pc \in [Threads -> Places]
    /\ opening \in [Threads -> SUBSET AllSources]
    /\ held \in [Threads -> SUBSET AllSources]
    /\ \A t \in Threads :
          IF pc[t] = "opening" THEN \E b \in AllSources : opening[t] = {b}
                               ELSE opening[t] = {}

(* What is still to be discovered has not been, and will not be again. *)
DiscInv ==
    /\ disc \in [step : DiscSteps, batch : DOMAIN Batches,
                 left : SUBSET DOMAIN FileSize, active : Nat]
    /\ initFinished = (disc.step = "done")
    /\ disc.left \subseteq Batches[disc.batch]
    /\ found \in Seq(DOMAIN FileSize)
    /\ \A i, j \in DOMAIN found : i # j => found[i] # found[j]
    /\ \A i \in DOMAIN found : found[i] \notin disc.left
    /\ \A i \in DOMAIN found : \E k \in 1 .. disc.batch : found[i] \in Batches[k]

(* The list of chunks comes before the first block is taken. *)
PrevInv ==
    /\ previous \in Previous \cup {<<>>}
    /\ chunksSet \in BOOLEAN
    /\ ~chunksSet => previous = <<>>
    /\ Resume /\ ~chunksSet =>
          /\ \A t \in Threads : pc[t] \in {"idle", "end"} /\ held[t] = {}
          /\ sent = {} /\ failed = {}

(* The blocks that were made are those of the files found, as the list of
   chunks asks for, and at the end those that delete the receiver's others. *)
BlocksOfFiles(all, prev) == UNION {SourcesOf(f, prev) : f \in Queued(all, prev)}

Deletions(all, prev, finished) ==
    IF DeleteExtra /\ finished THEN ExtraFiles(prev, all) ELSE {}

Made(all, prev, finished) ==
    BlocksOfFiles(all, prev) \cup {Deletion(f) : f \in Deletions(all, prev, finished)}

MadeInv == Sources = Made(found, previous, initFinished)

CountInv ==
    /\ IsFiniteSet(Sources)
    /\ numBlocks = Cardinality(Sources)
    /\ dequeued = Cardinality(Held \cup sent)

(* A new file has an id above those of the receiver and below the next one. *)
IdInv ==
    /\ nextSeqId \in Nat
    /\ DOMAIN seqId = Queued(found, previous) \cup Deletions(found, previous, initFinished)
    /\ \A g \in DOMAIN previous : previous[g].seqId < nextSeqId
    /\ \A f \in DOMAIN seqId :
          IF f \in Range(found) /\ IsNew(f, previous)
          THEN /\ seqId[f] \in Nat /\ seqId[f] < nextSeqId
               /\ \A g \in DOMAIN previous : previous[g].seqId < seqId[f]
          ELSE f \in DOMAIN previous /\ seqId[f] = previous[f].seqId
    /\ \A f, g \in DOMAIN seqId :
          /\ f \in Range(found) /\ IsNew(f, previous)
          /\ g \in Range(found) /\ IsNew(g, previous)
          /\ f # g
          => seqId[f] # seqId[g]

QueueInv ==
    ThreadInv /\ DiscInv /\ PrevInv /\ InOnePlace /\ MadeInv /\ CountInv /\ IdInv

-----------------------------------------------------------------------------
(* Sources and lists of chunks *)

(* A block names its file and whether it deletes it. *)
LEMMA BlockFields ==
    /\ \A f, prev : \A b \in SourcesOf(f, prev) : b.file = f /\ b.del = FALSE
    /\ \A f : Deletion(f).file = f /\ Deletion(f).del = TRUE
BY DEF SourcesOf, Source, Deletion

(* No list at all is a list of no files. *)
LEMMA PreviousType ==
    ASSUME NEW prev \in Previous \cup {<<>>}
    PROVE  /\ IsFiniteSet(DOMAIN prev)
           /\ \A f \in DOMAIN prev : prev[f].seqId \in Nat
           /\ \A f, g \in DOMAIN prev : f # g => prev[f].seqId # prev[g].seqId
<1>1. CASE prev = <<>>
  <2>1. DOMAIN prev = {}
    BY <1>1
  <2>2. QED
    BY <2>1, FS_EmptySet
<1>2. CASE prev \in Previous
  BY <1>2, PreviousAssumption
<1>3. QED
  BY <1>1, <1>2

(* The blocks of the files found so far, seen one by one. *)
LEMMA MadeMembers ==
    ASSUME NEW all, NEW prev, NEW finished, NEW b
    PROVE  b \in Made(all, prev, finished) <=>
              \/ \E f \in Queued(all, prev) : b \in SourcesOf(f, prev)
              \/ \E f \in Deletions(all, prev, finished) : b = Deletion(f)
BY DEF Made, BlocksOfFiles

(* The blocks that can be made at all do not depend on the state. *)
LEMMA AllSourcesConstant == AllSources' = AllSources
BY DEF AllSources

(* The blocks made so far are among the blocks there can be. *)
LEMMA MadeInAllSources ==
    ASSUME NEW all \in Seq(DOMAIN FileSize), NEW prev \in Previous \cup {<<>>}, NEW finished
    PROVE  Made(all, prev, finished) \subseteq AllSources
<1>1. \A f \in Queued(all, prev) : f \in DOMAIN FileSize
  BY DEF Queued, Range
<1>2. \A f \in Deletions(all, prev, finished) : f \in DOMAIN prev
  BY DEF Deletions, ExtraFiles
<1>3. DOMAIN prev # {} => prev \in Previous
  <2>1. DOMAIN <<>> = {}
    OBVIOUS
  <2>2. QED
    BY <2>1
<1>4. QED
  BY <1>1, <1>2, <1>3, MadeMembers DEF AllSources

(* Where the blocks are, seen thread by thread. *)
LEMMA SourcesMembers ==
    ASSUME NEW b
    PROVE  /\ b \in Sources <=> \/ b \in queue \cup sent \cup failed
                               \/ \E t \in Threads : b \in With(t)
           /\ b \in Held <=> \E t \in Threads : b \in held[t]
BY DEF Sources, Opening, Held, With

-----------------------------------------------------------------------------
(* Threads that are woken *)

(* Only waiting threads are woken, and they go on to try again. *)
LEMMA WokenType ==
    ASSUME NEW p \in [Threads -> Places], p = pc, NEW S \in SUBSET Waiting
    PROVE  /\ Woken(p, S) \in [Threads -> Places]
           /\ \A u \in Threads :
                 /\ Woken(p, S)[u] = "opening" <=> p[u] = "opening"
                 /\ Woken(p, S)[u] = "null" <=> p[u] = "null"
                 /\ p[u] \in {"idle", "end"} => Woken(p, S)[u] = p[u]
BY DEF Woken, Waiting, Places

(* The threads a notification wakes were waiting. *)
LEMMA NotifiedWait ==
    ASSUME NEW n, NEW S \in Notified(n)
    PROVE  S \subseteq Waiting
BY DEF Notified

-----------------------------------------------------------------------------
(* Blocks that change places *)

(* A thread moves what it has between its own two places and the three that
   all share: nothing is lost and nothing is in two places. *)
LEMMA Moved ==
    ASSUME ThreadInv, InOnePlace, NEW t \in Threads, NEW O, NEW H,
           opening' = [opening EXCEPT ![t] = O],
           held' = [held EXCEPT ![t] = H],
           O \cup H \cup queue' \cup sent' \cup failed'
               = With(t) \cup queue \cup sent \cup failed,
           O \cap H = {},
           (O \cup H) \cap (queue' \cup sent' \cup failed') = {},
           queue' \cap (sent' \cup failed') = {},
           sent' \cap failed' = {}
    PROVE  Sources' = Sources /\ InOnePlace'
<1>1. /\ opening'[t] = O /\ held'[t] = H
      /\ \A u \in Threads \ {t} : opening'[u] = opening[u] /\ held'[u] = held[u]
  BY DEF ThreadInv
<1>2. /\ With(t)' = O \cup H
      /\ \A u \in Threads \ {t} : With(u)' = With(u)
  BY <1>1 DEF With
<1>3. \A b : b \in Sources' <=> b \in Sources
  <2> TAKE b
  <2>1. b \in Sources' <=> \/ b \in queue' \cup sent' \cup failed'
                          \/ \E u \in Threads : b \in With(u)'
    BY DEF Sources, Opening, Held, With
  <2>2. b \in Sources <=> \/ b \in queue \cup sent \cup failed
                         \/ \E u \in Threads : b \in With(u)
    BY SourcesMembers
  <2>3. QED
    BY <1>2, <2>1, <2>2
<1>4. \A u \in Threads \ {t} :
         /\ opening'[u] \cap held'[u] = {}
         /\ With(u)' \cap (queue' \cup sent' \cup failed') = {}
         /\ With(u)' \cap With(t)' = {}
         /\ \A v \in Threads \ {t} : u # v => With(u)' \cap With(v)' = {}
  <2> TAKE u \in Threads \ {t}
  <2>1. With(u) \cap (With(t) \cup queue \cup sent \cup failed) = {}
    BY DEF InOnePlace
  <2>2. \A v \in Threads \ {t} : u # v => With(u) \cap With(v) = {}
    BY DEF InOnePlace
  <2>3. opening[u] \cap held[u] = {}
    BY DEF InOnePlace
  <2>4. QED
    BY <1>1, <1>2, <2>1, <2>2, <2>3
<1>5. opening'[t] \cap held'[t] = {} /\ With(t)' \cap (queue' \cup sent' \cup failed') = {}
  BY <1>1, <1>2
<1>6. InOnePlace'
  BY <1>4, <1>5 DEF InOnePlace
<1>7. QED
  BY Zenon, <1>3, <1>6

(* The blocks made, their number and their ids stay what they are when neither
   the files nor the blocks change. *)
LEMMA FilesUnchanged ==
    ASSUME MadeInv, CountInv, IdInv, Sources' = Sources,
           UNCHANGED <<fileVars, initFinished, numBlocks>>
    PROVE  /\ MadeInv' /\ IdInv'
           /\ IsFiniteSet(Sources') /\ numBlocks' = Cardinality(Sources')
<1>1. UNCHANGED <<found, seqId, nextSeqId, previous, initFinished, numBlocks>>
  BY DEF fileVars
<1>2. MadeInv'
  BY <1>1 DEF MadeInv
<1>3. IdInv'
  BY <1>1 DEF IdInv
<1>4. QED
  BY <1>1, <1>2, <1>3 DEF CountInv

(* Blocks that threads took and sent are finitely many. *)
LEMMA HeldFinite ==
    ASSUME CountInv
    PROVE  /\ IsFiniteSet(Held \cup sent)
           /\ \A t \in Threads : IsFiniteSet(held[t])
<1>1. Held \cup sent \subseteq Sources
  BY DEF Sources
<1>2. \A t \in Threads : held[t] \subseteq Held
  BY DEF Held
<1>3. QED
  BY <1>1, <1>2, FS_Subset DEF CountInv

(* The blocks the queue and the threads hold are among the blocks there can be. *)
LEMMA SourcesInAllSources ==
    ASSUME MadeInv, DiscInv, PrevInv
    PROVE  Sources \subseteq AllSources
BY MadeInAllSources DEF MadeInv, DiscInv, PrevInv

(* The discovery is somewhere between its steps: nothing else changes. *)
LEMMA DiscUnchanged ==
    ASSUME DiscInv, UNCHANGED <<fileVars, discVars>>
    PROVE  DiscInv'
BY DEF DiscInv, fileVars, discVars

(* getNextSource waits, gives up or pops a block. *)
LEMMA GetNextSourceInv ==
    ASSUME QueueInv, NEW t \in Threads, GetNextSource(t)
    PROVE  QueueInv'
<1> USE DEF QueueInv
<1>0. /\ UNCHANGED <<numBlocks, dequeued, fileVars, discVars, failed, held, sent>>
      /\ UNCHANGED <<chunksSet, previous, initFinished>>
      /\ pc[t] \in {"idle", "again", "woken"} /\ (Resume => chunksSet)
  BY DEF GetNextSource, fileVars, discVars
<1>1. opening[t] = {} /\ opening \in [Threads -> SUBSET AllSources]
  BY <1>0 DEF ThreadInv
<1>2. CASE queue = {}
  <2>1. /\ pc' = [pc EXCEPT ![t] = IF initFinished THEN "null" ELSE "waiting"]
        /\ UNCHANGED <<queue, opening>>
    BY <1>2 DEF GetNextSource, TakeNext
  <2>2. ThreadInv'
    BY <1>0, <1>1, <2>1, AllSourcesConstant DEF ThreadInv, Places
  <2>3. Sources' = Sources /\ InOnePlace'
    BY <1>0, <2>1 DEF Sources, Opening, Held, InOnePlace, With
  <2>4. QED
    BY <1>0, <2>2, <2>3, FilesUnchanged, DiscUnchanged DEF PrevInv, CountInv, Held
<1>3. CASE queue # {}
  <2>1. PICK b \in queue :
           /\ queue' = queue \ {b}
           /\ opening' = [opening EXCEPT ![t] = {b}]
           /\ pc' = [Woken(pc, IF initFinished /\ queue' = {} THEN Waiting ELSE {})
                        EXCEPT ![t] = "opening"]
    BY <1>3 DEF GetNextSource, TakeNext
  <2>2. b \in AllSources
    BY SourcesInAllSources DEF Sources
  <2>3. ThreadInv'
    <3>1. PICK S \in SUBSET Waiting : pc' = [Woken(pc, S) EXCEPT ![t] = "opening"]
      BY <2>1
    <3>2. /\ Woken(pc, S) \in [Threads -> Places]
          /\ \A u \in Threads : Woken(pc, S)[u] = "opening" <=> pc[u] = "opening"
      BY WokenType DEF ThreadInv
    <3>3. /\ pc' \in [Threads -> Places] /\ pc'[t] = "opening"
          /\ \A u \in Threads \ {t} : pc'[u] = "opening" <=> pc[u] = "opening"
      BY <3>1, <3>2 DEF Places
    <3>4. /\ opening' \in [Threads -> SUBSET AllSources] /\ opening'[t] = {b}
          /\ \A u \in Threads \ {t} : opening'[u] = opening[u]
      BY <1>1, <2>1, <2>2
    <3>5. QED
      BY <1>0, <2>2, <3>3, <3>4, AllSourcesConstant DEF ThreadInv
  <2>4. Sources' = Sources /\ InOnePlace'
    <3>1. held' = [held EXCEPT ![t] = held[t]]
      BY <1>0 DEF ThreadInv
    <3>2. With(t) = held[t] /\ held[t] \cap (queue \cup sent \cup failed) = {}
      BY <1>1 DEF With, InOnePlace
    <3>3. queue \cap (sent \cup failed) = {} /\ sent \cap failed = {}
      BY DEF InOnePlace
    <3>4. /\ {b} \cup held[t] \cup queue' \cup sent' \cup failed'
               = With(t) \cup queue \cup sent \cup failed
          /\ {b} \cap held[t] = {}
          /\ ({b} \cup held[t]) \cap (queue' \cup sent' \cup failed') = {}
          /\ queue' \cap (sent' \cup failed') = {}
          /\ sent' \cap failed' = {}
      BY <1>0, <2>1, <3>2, <3>3
    <3>5. QED
      BY Zenon, <2>1, <3>1, <3>4, Moved
  <2>5. QED
    BY <1>0, <2>3, <2>4, FilesUnchanged, DiscUnchanged DEF PrevInv, CountInv, Held
<1>4. QED
  BY <1>2, <1>3

(* A source that is open counts as dequeued. *)
LEMMA OpenedInv ==
    ASSUME QueueInv, NEW t \in Threads, Opened(t)
    PROVE  QueueInv'
<1> USE DEF QueueInv
<1>0. /\ UNCHANGED <<queue, numBlocks, fileVars, discVars, failed, sent>>
      /\ UNCHANGED <<chunksSet, previous, initFinished>>
      /\ pc[t] = "opening" /\ dequeued' = dequeued + 1
      /\ pc' = [pc EXCEPT ![t] = "idle"]
      /\ held' = [held EXCEPT ![t] = held[t] \cup opening[t]]
      /\ opening' = [opening EXCEPT ![t] = {}]
  BY DEF Opened, fileVars, discVars
<1>1. PICK b \in AllSources : opening[t] = {b}
  BY <1>0 DEF ThreadInv
<1>2. ThreadInv'
  BY <1>0, <1>1, AllSourcesConstant DEF ThreadInv, Places
<1>3. Sources' = Sources /\ InOnePlace'
  <2>1. /\ With(t) = opening[t] \cup held[t]
        /\ With(t) \cap (queue \cup sent \cup failed) = {}
        /\ queue \cap (sent \cup failed) = {} /\ sent \cap failed = {}
    BY DEF With, InOnePlace
  <2>2. QED
    BY Zenon, <1>0, <2>1, Moved
<1>4. CountInv'
  <2>1. b \notin Held \cup sent
    <3>1. \A u \in Threads : b \notin held[u]
      BY <1>1 DEF InOnePlace, With
    <3>2. b \notin sent
      BY <1>1 DEF InOnePlace, With
    <3>3. QED
      BY <3>1, <3>2 DEF Held
  <2>2. Held' \cup sent' = (Held \cup sent) \cup {b}
    <3>1. /\ held'[t] = held[t] \cup {b}
          /\ \A u \in Threads \ {t} : held'[u] = held[u]
      BY <1>0, <1>1 DEF ThreadInv
    <3>2. QED
      BY <1>0, <3>1 DEF Held
  <2>3. Cardinality((Held \cup sent) \cup {b}) = Cardinality(Held \cup sent) + 1
    BY Zenon, <2>1, HeldFinite, FS_AddElement
  <2>4. QED
    BY <1>0, <1>3, <2>2, <2>3, FilesUnchanged DEF CountInv
<1>5. PrevInv'
  BY <1>0 DEF PrevInv
<1>6. QED
  BY <1>0, <1>2, <1>3, <1>4, <1>5, FilesUnchanged, DiscUnchanged

(* A source that cannot be opened has failed. *)
LEMMA OpenFailsInv ==
    ASSUME QueueInv, NEW t \in Threads, OpenFails(t)
    PROVE  QueueInv'
<1> USE DEF QueueInv
<1>0. /\ UNCHANGED <<queue, numBlocks, dequeued, fileVars, discVars, held, sent>>
      /\ UNCHANGED <<chunksSet, previous, initFinished>>
      /\ pc[t] = "opening"
      /\ pc' = [pc EXCEPT ![t] = "again"]
      /\ failed' = failed \cup opening[t]
      /\ opening' = [opening EXCEPT ![t] = {}]
  BY DEF OpenFails, queueVars, fileVars, discVars
<1>1. ThreadInv'
  BY <1>0, AllSourcesConstant DEF ThreadInv, Places
<1>2. Sources' = Sources /\ InOnePlace'
  <2>1. /\ With(t) = opening[t] \cup held[t] /\ opening[t] \cap held[t] = {}
        /\ With(t) \cap (queue \cup sent \cup failed) = {}
        /\ queue \cap (sent \cup failed) = {} /\ sent \cap failed = {}
    BY DEF With, InOnePlace
  <2>2. held' = [held EXCEPT ![t] = held[t]]
    BY <1>0 DEF ThreadInv
  <2>3. /\ {} \cup held[t] \cup queue' \cup sent' \cup failed'
              = With(t) \cup queue \cup sent \cup failed
        /\ {} \cap held[t] = {}
        /\ ({} \cup held[t]) \cap (queue' \cup sent' \cup failed') = {}
        /\ queue' \cap (sent' \cup failed') = {}
        /\ sent' \cap failed' = {}
    BY <1>0, <2>1
  <2>4. opening' = [opening EXCEPT ![t] = {}]
    BY <1>0
  <2>5. ThreadInv /\ InOnePlace
    OBVIOUS
  <2>6. QED
    BY Zenon, <2>2, <2>3, <2>4, <2>5, Moved
<1>3. PrevInv'
  BY <1>0 DEF PrevInv
<1>4. QED
  BY <1>0, <1>1, <1>2, <1>3, FilesUnchanged, DiscUnchanged DEF CountInv, Held

(* What is acknowledged is no longer held, and counts as dequeued all the same. *)
LEMMA AcknowledgeInv ==
    ASSUME QueueInv, NEW t \in Threads, Acknowledge(t)
    PROVE  QueueInv'
<1> USE DEF QueueInv
<1>0. /\ UNCHANGED <<queue, numBlocks, dequeued, fileVars, discVars, failed, pc, opening>>
      /\ UNCHANGED <<chunksSet, previous, initFinished>>
      /\ held[t] # {} /\ pc[t] \in {"idle", "null"}
  BY DEF Acknowledge, queueVars, fileVars, discVars
<1>1. PICK S \in SUBSET held[t] : /\ held' = [held EXCEPT ![t] = held[t] \ S]
                                 /\ sent' = sent \cup S
  BY Zenon DEF Acknowledge
<1>2. opening[t] = {}
  BY <1>0 DEF ThreadInv
<1>3. ThreadInv'
  BY <1>0, <1>1, AllSourcesConstant DEF ThreadInv
<1>4. Sources' = Sources /\ InOnePlace'
  <2>1. /\ With(t) = held[t]
        /\ With(t) \cap (queue \cup sent \cup failed) = {}
        /\ queue \cap (sent \cup failed) = {} /\ sent \cap failed = {}
    BY <1>2 DEF With, InOnePlace
  <2>2. opening' = [opening EXCEPT ![t] = {}]
    BY <1>0, <1>2 DEF ThreadInv
  <2>3. /\ {} \cup (held[t] \ S) \cup queue' \cup sent' \cup failed'
              = With(t) \cup queue \cup sent \cup failed
        /\ ({} \cup (held[t] \ S)) \cap (queue' \cup sent' \cup failed') = {}
        /\ queue' \cap (sent' \cup failed') = {}
        /\ sent' \cap failed' = {}
    BY <1>0, <1>1, <2>1
  <2>4. QED
    BY Zenon, <1>1, <2>2, <2>3, Moved
<1>5. Held' \cup sent' = Held \cup sent
  <2>1. /\ held'[t] = held[t] \ S
        /\ \A u \in Threads \ {t} : held'[u] = held[u]
    BY <1>1 DEF ThreadInv
  <2>2. QED
    BY <1>1, <2>1 DEF Held
<1>6. PrevInv'
  BY <1>0 DEF PrevInv
<1>7. QED
  BY Zenon, <1>0, <1>3, <1>4, <1>5, <1>6, FilesUnchanged, DiscUnchanged DEF CountInv

(* What is returned is in the queue again, and no longer counts as dequeued. *)
LEMMA ReturnToQueueInv ==
    ASSUME QueueInv, NEW t \in Threads, ReturnToQueue(t)
    PROVE  QueueInv'
<1> USE DEF QueueInv
<1>0. /\ UNCHANGED <<numBlocks, fileVars, discVars, failed, opening, sent>>
      /\ UNCHANGED <<chunksSet, previous, initFinished>>
      /\ held[t] # {} /\ pc[t] \in {"idle", "null"}
      /\ queue' = queue \cup held[t]
      /\ dequeued' = dequeued - Cardinality(held[t])
      /\ held' = [held EXCEPT ![t] = {}]
      /\ pc' = [pc EXCEPT ![t] = "notify"]
  BY DEF ReturnToQueue, fileVars, discVars
<1>2. opening[t] = {}
  BY <1>0 DEF ThreadInv
<1>3. ThreadInv'
  BY <1>0, <1>2, AllSourcesConstant DEF ThreadInv, Places
<1>4. Sources' = Sources /\ InOnePlace'
  <2>1. /\ With(t) = held[t]
        /\ With(t) \cap (queue \cup sent \cup failed) = {}
        /\ queue \cap (sent \cup failed) = {} /\ sent \cap failed = {}
    BY <1>2 DEF With, InOnePlace
  <2>2. opening' = [opening EXCEPT ![t] = {}]
    BY <1>0, <1>2 DEF ThreadInv
  <2>3. /\ {} \cup {} \cup queue' \cup sent' \cup failed'
              = With(t) \cup queue \cup sent \cup failed
        /\ {} \cap {} = {}
        /\ ({} \cup {}) \cap (queue' \cup sent' \cup failed') = {}
        /\ queue' \cap (sent' \cup failed') = {}
        /\ sent' \cap failed' = {}
    BY <1>0, <2>1
  <2>4. ThreadInv /\ InOnePlace /\ held' = [held EXCEPT ![t] = {}]
    BY <1>0
  <2>5. QED
    BY Zenon, <2>2, <2>3, <2>4, Moved
<1>5. CountInv'
  <2>1. /\ held'[t] = {}
        /\ \A u \in Threads \ {t} : held'[u] = held[u]
    BY <1>0 DEF ThreadInv
  <2>2. /\ held[t] \cap sent = {}
        /\ \A u \in Threads \ {t} : held[u] \cap held[t] = {}
    BY DEF InOnePlace, With
  <2>3. Held' \cup sent' = (Held \cup sent) \ held[t]
    BY <1>0, <2>1, <2>2 DEF Held
  <2>4. (Held \cup sent) \cap held[t] = held[t]
    BY DEF Held
  <2>5. /\ Cardinality(held[t]) \in Nat /\ Cardinality(Held \cup sent) \in Nat
        /\ Cardinality((Held \cup sent) \ held[t])
              = Cardinality(Held \cup sent) - Cardinality((Held \cup sent) \cap held[t])
    BY Zenon, HeldFinite, FS_Difference, FS_CardinalityType
  <2>6. dequeued' = Cardinality(Held' \cup sent')
    BY Zenon, <1>0, <2>3, <2>4, <2>5 DEF CountInv
  <2>7. QED
    BY <1>0, <1>4, <2>6, FilesUnchanged DEF CountInv
<1>6. PrevInv'
  BY <1>0 DEF PrevInv
<1>7. QED
  BY <1>0, <1>3, <1>4, <1>5, <1>6, FilesUnchanged, DiscUnchanged

(* Waking others, and ending, move no block. *)
LEMMA SmartNotifyInv ==
    ASSUME QueueInv, NEW t \in Threads, SmartNotify(t)
    PROVE  QueueInv'
<1> USE DEF QueueInv
<1>0. /\ UNCHANGED <<queue, numBlocks, dequeued, fileVars, discVars, failed, opening, held, sent>>
      /\ UNCHANGED <<chunksSet, previous, initFinished>>
      /\ pc[t] = "notify"
  BY DEF SmartNotify, queueVars, fileVars, discVars
<1>1. PICK S \in SUBSET Waiting : pc' = [Woken(pc, S) EXCEPT ![t] = "idle"]
  BY Zenon, NotifiedWait DEF SmartNotify
<1>2. /\ Woken(pc, S) \in [Threads -> Places]
      /\ \A u \in Threads : Woken(pc, S)[u] = "opening" <=> pc[u] = "opening"
  BY WokenType DEF ThreadInv
<1>3. /\ pc' \in [Threads -> Places] /\ pc'[t] = "idle"
      /\ \A u \in Threads \ {t} : pc'[u] = "opening" <=> pc[u] = "opening"
  BY <1>1, <1>2 DEF Places
<1>4. ThreadInv'
  BY <1>0, <1>3, AllSourcesConstant DEF ThreadInv
<1>5. Sources' = Sources /\ InOnePlace'
  BY <1>0 DEF Sources, Opening, Held, InOnePlace, With
<1>6. PrevInv'
  BY Zenon, <1>0 DEF PrevInv
<1>7. QED
  BY <1>0, <1>4, <1>5, <1>6, FilesUnchanged, DiscUnchanged DEF CountInv, Held

(* A thread that is told the transfer is over keeps the invariant. *)
LEMMA EndInv ==
    ASSUME QueueInv, NEW t \in Threads, End(t)
    PROVE  QueueInv'
<1> USE DEF QueueInv
<1>0. /\ UNCHANGED <<queue, numBlocks, dequeued, fileVars, discVars, failed, opening, held, sent>>
      /\ UNCHANGED <<chunksSet, previous, initFinished>>
      /\ pc[t] \in {"null", "idle"} /\ pc' = [pc EXCEPT ![t] = "end"]
  BY Zenon DEF End, queueVars, fileVars, discVars
<1>1. ThreadInv'
  BY <1>0, AllSourcesConstant DEF ThreadInv, Places
<1>2. Sources' = Sources /\ InOnePlace'
  BY <1>0 DEF Sources, Opening, Held, InOnePlace, With
<1>3. PrevInv'
  BY <1>0 DEF PrevInv, ThreadInv
<1>4. QED
  BY Zenon, <1>0, <1>1, <1>2, <1>3, FilesUnchanged, DiscUnchanged DEF CountInv, Held

-----------------------------------------------------------------------------
(* The discovery *)

(* The discovery goes on with its own affairs. *)
LEMMA ControlInv ==
    ASSUME QueueInv, DiscInv',
           UNCHANGED <<threadVars, queueVars, fileVars, initFinished, failed>>
    PROVE  QueueInv'
<1> USE DEF QueueInv
<1>0. UNCHANGED <<queue, numBlocks, dequeued, found, seqId, nextSeqId, previous, chunksSet,
                  initFinished, failed, pc, opening, held, sent>>
  BY DEF threadVars, queueVars, fileVars
<1>1. ThreadInv'
  BY <1>0, AllSourcesConstant DEF ThreadInv
<1>2. Sources' = Sources /\ InOnePlace'
  BY <1>0 DEF Sources, Opening, Held, InOnePlace, With
<1>3. PrevInv'
  BY <1>0 DEF PrevInv
<1>4. CountInv'
  BY <1>0, <1>2 DEF CountInv, Held
<1>5. QED
  BY <1>0, <1>1, <1>2, <1>3, <1>4, FilesUnchanged

(* The steps of the discovery that find no file change nothing else. *)
LEMMA ControlSteps ==
    ASSUME QueueInv,
           \/ \E f \in disc.left : DiscoverFails(f)
           \/ AbortDiscovery \/ EndOfBatch \/ ReadActiveThreads
           \/ CheckPreviousTransfer \/ PollPreviousTransfer \/ Generate
    PROVE  /\ UNCHANGED <<threadVars, queueVars, fileVars, initFinished, failed>>
           /\ DiscInv'
<1>0. DiscInv
  BY DEF QueueInv
<1>1. UNCHANGED <<threadVars, queueVars, fileVars, initFinished, failed>>
  BY DEF DiscoverFails, AbortDiscovery, EndOfBatch, ReadActiveThreads,
         CheckPreviousTransfer, PollPreviousTransfer, Generate
<1>2. UNCHANGED found
  BY <1>1 DEF fileVars
<1>3. Cardinality(Active) \in Nat
  BY ThreadsAssumption, FS_Subset, FS_CardinalityType DEF Active
<1>4. ASSUME NEW f \in disc.left, DiscoverFails(f)
      PROVE  DiscInv'
  BY Zenon, <1>0, <1>1, <1>2, <1>4 DEF DiscInv, DiscoverFails, DiscSteps
<1>5. CASE AbortDiscovery \/ EndOfBatch
  BY <1>0, <1>1, <1>2, <1>5 DEF DiscInv, AbortDiscovery, EndOfBatch, DiscSteps
<1>6. CASE ReadActiveThreads \/ CheckPreviousTransfer \/ PollPreviousTransfer
  <2>1. CASE ReadActiveThreads
    BY <1>0, <1>1, <1>2, <1>3, <2>1, ZenonT(30) DEF DiscInv, ReadActiveThreads, DiscSteps
  <2>2. CASE CheckPreviousTransfer
    BY <1>0, <1>1, <1>2, <2>2 DEF DiscInv, CheckPreviousTransfer, DiscSteps
  <2>3. CASE PollPreviousTransfer
    BY <1>0, <1>1, <1>2, <1>3, <2>3, ZenonT(30) DEF DiscInv, PollPreviousTransfer, DiscSteps
  <2>4. QED
    BY <1>6, <2>1, <2>2, <2>3
<1>7. CASE Generate
  <2>1. CASE Finished \/ disc.batch = Len(Batches)
    BY <1>0, <1>1, <1>2, <1>7, <2>1 DEF DiscInv, Generate, DiscSteps
  <2>2. CASE ~(Finished \/ disc.batch = Len(Batches))
    <3>1. /\ disc' = [disc EXCEPT !.step = "files", !.batch = disc.batch + 1,
                                  !.left = Batches[disc.batch + 1]]
          /\ disc.step = "generate"
      BY <1>7, <2>2 DEF Generate
    <3>2. /\ disc.batch \in 1 .. Len(Batches) /\ disc.batch + 1 \in 1 .. Len(Batches)
          /\ DOMAIN Batches = 1 .. Len(Batches)
          /\ Batches[disc.batch + 1] \in SUBSET DOMAIN FileSize
      BY <1>0, <2>2, BatchesAssumption DEF DiscInv
    <3>3. \A k \in 1 .. disc.batch : Batches[k] \cap Batches[disc.batch + 1] = {}
      BY <3>2, BatchesAssumption
    <3>4. \A i \in DOMAIN found : /\ found[i] \notin Batches[disc.batch + 1]
                                 /\ \E k \in 1 .. (disc.batch + 1) : found[i] \in Batches[k]
      BY <1>0, <3>2, <3>3 DEF DiscInv
    <3>5. QED
      BY Zenon, <1>0, <1>1, <1>2, <3>1, <3>2, <3>4 DEF DiscInv, DiscSteps
  <2>3. QED
    BY <2>1, <2>2
<1>8. QED
  BY <1>1, <1>4, <1>5, <1>6, <1>7

(* createIntoQueue makes the blocks of a file that had none. *)
LEMMA FoundGrows ==
    ASSUME NEW all \in Seq(DOMAIN FileSize), NEW f \in DOMAIN FileSize, NEW prev
    PROVE  /\ Range(Append(all, f)) = Range(all) \cup {f}
           /\ Queued(Append(all, f), prev)
                 = Queued(all, prev) \cup (IF HasBlocks(f, prev) THEN {f} ELSE {})
<1>1. /\ DOMAIN Append(all, f) = 1 .. (Len(all) + 1) /\ DOMAIN all = 1 .. Len(all)
      /\ Len(all) \in Nat
      /\ Append(all, f)[Len(all) + 1] = f
      /\ \A i \in 1 .. Len(all) : Append(all, f)[i] = all[i]
  OBVIOUS
<1>2. \A g : g \in Range(Append(all, f)) <=> g \in Range(all) \/ g = f
  <2> TAKE g
  <2>1. g \in Range(Append(all, f)) <=> \E i \in 1 .. (Len(all) + 1) : Append(all, f)[i] = g
    BY <1>1 DEF Range
  <2>2. g \in Range(all) <=> \E i \in 1 .. Len(all) : all[i] = g
    BY <1>1 DEF Range
  <2>3. \A i \in 1 .. (Len(all) + 1) : i \in 1 .. Len(all) \/ i = Len(all) + 1
    BY <1>1
  <2>4. 1 .. Len(all) \subseteq 1 .. (Len(all) + 1) /\ Len(all) + 1 \in 1 .. (Len(all) + 1)
    BY <1>1
  <2>5. QED
    BY <1>1, <2>1, <2>2, <2>3, <2>4
<1>3. QED
  BY <1>2 DEF Queued

(* New blocks go to the queue. *)
LEMMA Added ==
    ASSUME InOnePlace, CountInv, NEW N, IsFiniteSet(N), N \cap Sources = {},
           queue' = queue \cup N, UNCHANGED <<opening, held, sent, failed>>
    PROVE  /\ Sources' = Sources \cup N
           /\ IsFiniteSet(Sources')
           /\ Cardinality(Sources') = Cardinality(Sources) + Cardinality(N)
           /\ InOnePlace'
<1>1. Sources' = Sources \cup N
  BY DEF Sources, Opening, Held
<1>2. /\ N \cap (sent \cup failed) = {}
      /\ \A t \in Threads : N \cap With(t) = {}
  BY SourcesMembers
<1>3. /\ \A t \in Threads :
            /\ opening[t] \cap held[t] = {}
            /\ With(t) \cap (queue' \cup sent \cup failed) = {}
            /\ \A u \in Threads \ {t} : With(t) \cap With(u) = {}
      /\ queue' \cap (sent \cup failed) = {}
      /\ sent \cap failed = {}
  BY <1>2 DEF InOnePlace
<1>4. InOnePlace'
  BY <1>3 DEF InOnePlace, With
<1>5. /\ IsFiniteSet(Sources \cup N)
      /\ Cardinality(Sources \cup N)
            = Cardinality(Sources) + Cardinality(N) - Cardinality(Sources \cap N)
  BY FS_Union DEF CountInv
<1>6. Cardinality(Sources \cap N) = 0
  <2>1. Sources \cap N = {}
    OBVIOUS
  <2>2. QED
    BY <2>1, FS_EmptySet, Zenon
<1>7. Cardinality(Sources) \in Nat /\ Cardinality(N) \in Nat
  BY FS_CardinalityType DEF CountInv
<1>8. Cardinality(Sources \cup N) = Cardinality(Sources) + Cardinality(N)
  BY <1>5, <1>6, <1>7
<1>9. QED
  BY <1>1, <1>4, <1>5, <1>8

(* Waking threads concerns no block. *)
LEMMA WokenInv ==
    ASSUME ThreadInv, PrevInv, NEW S \in SUBSET Waiting, pc' = Woken(pc, S),
           UNCHANGED <<opening, held, sent, failed, previous, chunksSet>>
    PROVE  ThreadInv' /\ PrevInv'
<1>1. /\ pc' \in [Threads -> Places]
      /\ \A u \in Threads :
            /\ pc'[u] = "opening" <=> pc[u] = "opening"
            /\ pc[u] \in {"idle", "end"} => pc'[u] = pc[u]
  BY WokenType DEF ThreadInv
<1>2. ThreadInv'
  BY <1>1, AllSourcesConstant DEF ThreadInv
<1>3. PrevInv'
  BY <1>1 DEF PrevInv
<1>4. QED
  BY <1>2, <1>3

(* What createIntoQueue does, whether or not the file gets blocks. *)
LEMMA DiscoverStep ==
    ASSUME QueueInv, NEW f \in disc.left, Discover(f)
    PROVE  /\ queue' = queue \cup SourcesOf(f, previous)
           /\ numBlocks' = numBlocks + Cardinality(SourcesOf(f, previous))
           /\ SourcesOf(f, previous) \cap Sources = {}
           /\ IsFiniteSet(SourcesOf(f, previous))
           /\ f \in DOMAIN FileSize /\ f \notin Range(found)
           /\ found' = Append(found, f) /\ disc.step = "files" /\ ~initFinished
           /\ \E S \in SUBSET Waiting : pc' = Woken(pc, S)
           /\ UNCHANGED <<dequeued, previous, chunksSet, initFinished, failed,
                          opening, held, sent>>
<1> USE DEF QueueInv
<1> DEFINE acc == CreateIntoQueue(Acc, f, previous)
<1>0. /\ disc.step = "files" /\ found' = Append(found, f)
      /\ UNCHANGED <<dequeued, previous, chunksSet, initFinished, failed, opening, held, sent>>
      /\ SetAcc(acc)
      /\ \E S \in Notified(acc.numBlocks - numBlocks) : pc' = Woken(pc, S)
  BY DEF Discover
<1>1. f \in DOMAIN FileSize /\ f \notin Range(found) /\ ~initFinished
  BY Zenon, <1>0 DEF DiscInv, Range
<1>2. /\ IsFiniteSet(SourcesOf(f, previous))
      /\ ~HasBlocks(f, previous) => SourcesOf(f, previous) = {}
  BY <1>1, SplitAssumption DEF PrevInv
<1>3. /\ queue' = queue \cup SourcesOf(f, previous)
      /\ numBlocks' = numBlocks + Cardinality(SourcesOf(f, previous))
  <2>1. CASE HasBlocks(f, previous)
    BY Zenon, <1>0, <2>1 DEF SetAcc, CreateIntoQueue, Acc
  <2>2. CASE ~HasBlocks(f, previous)
    <3>1. numBlocks \in Nat
      BY FS_CardinalityType DEF CountInv
    <3>2. queue' = queue /\ numBlocks' = numBlocks
      BY Zenon, <1>0, <2>2 DEF SetAcc, CreateIntoQueue, Acc
    <3>3. Cardinality(SourcesOf(f, previous)) = 0
      BY Zenon, <1>2, <2>2, FS_EmptySet
    <3>4. QED
      BY <1>2, <2>2, <3>1, <3>2, <3>3
  <2>3. QED
    BY <2>1, <2>2
<1>4. SourcesOf(f, previous) \cap Sources = {}
  <2> SUFFICES ASSUME NEW b \in SourcesOf(f, previous), b \in Sources
               PROVE  FALSE
    BY Zenon
  <2>1. Deletions(found, previous, initFinished) = {}
    BY <1>1 DEF Deletions
  <2>2. PICK g \in Queued(found, previous) : b \in SourcesOf(g, previous)
    BY Zenon, <2>1, MadeMembers DEF MadeInv
  <2>3. QED
    BY <1>1, <2>2, BlockFields DEF Queued
<1>5. QED
  BY Zenon, <1>0, <1>1, <1>2, <1>3, <1>4, NotifiedWait

(* The next free id goes to a new file, and to no other. *)
LEMMA DiscoverIds ==
    ASSUME QueueInv, NEW f \in disc.left, Discover(f)
    PROVE  IdInv'
<1> USE DEF QueueInv
<1> DEFINE new == HasBlocks(f, previous) /\ IsNew(f, previous)
<1>0. /\ f \in DOMAIN FileSize /\ f \notin Range(found) /\ ~initFinished
      /\ found' = Append(found, f) /\ previous' = previous /\ initFinished' = initFinished
  BY DiscoverStep
<1>1. /\ Range(found') = Range(found) \cup {f}
      /\ Queued(found', previous')
            = Queued(found, previous) \cup (IF HasBlocks(f, previous) THEN {f} ELSE {})
  BY <1>0, FoundGrows DEF DiscInv
<1>2. /\ Deletions(found, previous, initFinished) = {}
      /\ Deletions(found', previous', initFinished') = {}
  BY <1>0 DEF Deletions
<1>3. DOMAIN seqId = Queued(found, previous) /\ DOMAIN seqId \subseteq Range(found)
  BY Zenon, <1>2 DEF IdInv, Queued
<1>4. \A g \in DOMAIN previous : previous[g].seqId \in Nat
  BY PreviousType DEF PrevInv
<1>5. CASE ~HasBlocks(f, previous)
  <2>1. seqId' = seqId /\ nextSeqId' = nextSeqId
    BY <1>5 DEF Discover, SetAcc, CreateIntoQueue, Acc
  <2>2. QED
    BY Zenon, <1>0, <1>1, <1>2, <1>3, <1>5, <2>1 DEF IdInv
<1>6. CASE HasBlocks(f, previous)
  <2>1. /\ seqId' = [g \in DOMAIN seqId \cup {f} |->
                        IF g = f THEN (IF IsNew(f, previous) THEN nextSeqId ELSE previous[f].seqId)
                                 ELSE seqId[g]]
        /\ nextSeqId' = IF IsNew(f, previous) THEN nextSeqId + 1 ELSE nextSeqId
    BY <1>6 DEF Discover, SetAcc, CreateIntoQueue, Acc
  <2>2. /\ DOMAIN seqId' = DOMAIN seqId \cup {f}
        /\ seqId'[f] = IF IsNew(f, previous) THEN nextSeqId ELSE previous[f].seqId
        /\ \A g \in DOMAIN seqId : seqId'[g] = seqId[g] /\ g # f /\ g \in Range(found)
    BY Zenon, <1>0, <1>3, <2>1
  <2>3. DOMAIN seqId' = Queued(found', previous') \cup Deletions(found', previous', initFinished')
    BY Zenon, <1>1, <1>2, <1>3, <1>6, <2>2
  <2>4. /\ nextSeqId \in Nat /\ nextSeqId' \in Nat /\ nextSeqId <= nextSeqId'
        /\ IsNew(f, previous) => nextSeqId < nextSeqId'
    <3>1. nextSeqId \in Nat
      BY Zenon DEF IdInv
    <3>2. QED
      BY <2>1, <3>1
  <2>5. \A g \in DOMAIN previous' : previous'[g].seqId < nextSeqId'
    <3>1. \A g \in DOMAIN previous : previous[g].seqId < nextSeqId
      BY Zenon DEF IdInv
    <3>2. QED
      BY <1>0, <1>4, <2>4, <3>1
  <2>6. ASSUME NEW g \in DOMAIN seqId'
        PROVE  IF g \in Range(found') /\ IsNew(g, previous')
               THEN /\ seqId'[g] \in Nat /\ seqId'[g] < nextSeqId'
                    /\ \A h \in DOMAIN previous' : previous'[h].seqId < seqId'[g]
               ELSE g \in DOMAIN previous' /\ seqId'[g] = previous'[g].seqId
    <3>1. CASE g = f
      BY Zenon, <1>0, <1>1, <2>2, <2>4, <3>1 DEF IdInv, IsNew
    <3>2. CASE g # f
      <4>1. /\ g \in DOMAIN seqId /\ seqId'[g] = seqId[g]
            /\ g \in Range(found) /\ g \in Range(found')
        BY Zenon, <1>1, <2>2, <3>2
      <4>2. IF IsNew(g, previous)
            THEN /\ seqId[g] \in Nat /\ seqId[g] < nextSeqId
                 /\ \A h \in DOMAIN previous : previous[h].seqId < seqId[g]
            ELSE g \in DOMAIN previous /\ seqId[g] = previous[g].seqId
        BY <4>1 DEF IdInv
      <4>3. seqId[g] \in Nat /\ seqId[g] < nextSeqId => seqId[g] < nextSeqId'
        BY <2>4
      <4>4. QED
        BY Zenon, <1>0, <4>1, <4>2, <4>3
    <3>3. QED
      BY Zenon, <3>1, <3>2
  <2>7. ASSUME NEW g \in DOMAIN seqId', NEW h \in DOMAIN seqId',
               g \in Range(found'), IsNew(g, previous'),
               h \in Range(found'), IsNew(h, previous'), g # h
        PROVE  seqId'[g] # seqId'[h]
    <3>1. \A k \in DOMAIN seqId : IsNew(k, previous) => seqId[k] \in Nat /\ seqId[k] < nextSeqId
      BY <1>3 DEF IdInv
    <3>2. CASE g # f /\ h # f
      <4>1. /\ g \in DOMAIN seqId /\ h \in DOMAIN seqId
            /\ g \in Range(found) /\ h \in Range(found)
            /\ IsNew(g, previous) /\ IsNew(h, previous)
        BY <1>0, <2>2, <2>7, <3>2
      <4>2. seqId[g] # seqId[h]
        BY Zenon, <2>7, <4>1 DEF IdInv
      <4>3. QED
        BY <2>2, <4>1, <4>2
    <3>3. CASE g = f \/ h = f
      <4>1. PICK k \in {g, h} : k # f /\ {seqId'[g], seqId'[h]} = {seqId'[f], seqId'[k]}
        BY Zenon, <2>7, <3>3
      <4>2. k \in DOMAIN seqId /\ IsNew(k, previous) /\ IsNew(f, previous)
        BY Zenon, <1>0, <2>2, <2>7, <3>3, <4>1
      <4>3. /\ seqId'[f] = nextSeqId /\ seqId'[k] = seqId[k]
            /\ seqId[k] \in Nat /\ seqId[k] < nextSeqId
        BY Zenon, <2>2, <3>1, <4>2
      <4>4. seqId'[f] # seqId'[k]
        BY <2>4, <4>3
      <4>5. QED
        BY Zenon, <4>1, <4>4
    <3>4. QED
      BY <3>2, <3>3
  <2>8. QED
    BY Zenon, <2>3, <2>4, <2>5, <2>6, <2>7 DEF IdInv
<1>7. QED
  BY <1>5, <1>6

(* createIntoQueue for a file that was found keeps the invariant. *)
LEMMA DiscoverInv ==
    ASSUME QueueInv, NEW f \in disc.left, Discover(f)
    PROVE  QueueInv'
<1> USE DEF QueueInv
<1> DEFINE N == SourcesOf(f, previous)
<1>0. /\ queue' = queue \cup N /\ numBlocks' = numBlocks + Cardinality(N)
      /\ N \cap Sources = {} /\ IsFiniteSet(N)
      /\ f \in DOMAIN FileSize /\ f \notin Range(found)
      /\ found' = Append(found, f) /\ disc.step = "files" /\ ~initFinished
      /\ \E S \in SUBSET Waiting : pc' = Woken(pc, S)
      /\ UNCHANGED <<dequeued, previous, chunksSet, initFinished, failed, opening, held, sent>>
  BY Zenon, DiscoverStep
<1>1. ThreadInv' /\ PrevInv'
  BY Zenon, <1>0, WokenInv
<1>2. /\ Sources' = Sources \cup N /\ IsFiniteSet(Sources')
      /\ Cardinality(Sources') = Cardinality(Sources) + Cardinality(N) /\ InOnePlace'
  <2>1. InOnePlace /\ CountInv
    OBVIOUS
  <2>2. QED
    BY <1>0, <2>1, Added
<1>3. MadeInv'
  <2>1. Queued(found', previous')
            = Queued(found, previous) \cup (IF HasBlocks(f, previous) THEN {f} ELSE {})
    BY Zenon, <1>0, FoundGrows DEF DiscInv
  <2>2. ~HasBlocks(f, previous) => N = {}
    BY Zenon, <1>0, SplitAssumption DEF PrevInv
  <2>3. /\ Deletions(found, previous, initFinished) = {}
        /\ Deletions(found', previous', initFinished') = {}
    BY Zenon, <1>0 DEF Deletions
  <2>4. Made(found', previous', initFinished') = Made(found, previous, initFinished) \cup N
    <3> SUFFICES ASSUME NEW b
                 PROVE  b \in Made(found', previous', initFinished') <=>
                           b \in Made(found, previous, initFinished) \/ b \in N
      BY Zenon
    <3>1. b \in Made(found', previous', initFinished') <=>
             \E g \in Queued(found', previous') : b \in SourcesOf(g, previous')
      BY <2>3, MadeMembers
    <3>2. b \in Made(found, previous, initFinished) <=>
             \E g \in Queued(found, previous) : b \in SourcesOf(g, previous)
      BY <2>3, MadeMembers
    <3>3. QED
      BY Zenon, <1>0, <2>1, <2>2, <3>1, <3>2
  <2>5. QED
    BY <1>2, <2>4 DEF MadeInv
<1>4. CountInv'
  <2>1. Held' \cup sent' = Held \cup sent
    BY Zenon, <1>0 DEF Held
  <2>2. QED
    BY Zenon, <1>0, <1>2, <2>1 DEF CountInv
<1>5. DiscInv'
  <2>1. disc' = [disc EXCEPT !.left = disc.left \ {f}]
    BY DEF Discover
  <2>2. /\ Len(found) \in Nat /\ DOMAIN found = 1 .. Len(found)
        /\ found' \in Seq(DOMAIN FileSize) /\ DOMAIN found' = 1 .. (Len(found) + 1)
        /\ found'[Len(found) + 1] = f
        /\ \A i \in 1 .. Len(found) : found'[i] = found[i]
    <3>1. PICK s \in Seq(DOMAIN FileSize) : s = found /\ found' = Append(s, f)
      BY Zenon, <1>0 DEF DiscInv
    <3>2. /\ Len(s) \in Nat /\ DOMAIN s = 1 .. Len(s)
          /\ Append(s, f) \in Seq(DOMAIN FileSize)
          /\ DOMAIN Append(s, f) = 1 .. (Len(s) + 1)
          /\ Append(s, f)[Len(s) + 1] = f
          /\ \A i \in 1 .. Len(s) : Append(s, f)[i] = s[i]
      BY <1>0
    <3>3. QED
      BY Zenon, <3>1, <3>2
  <2>3. \A i \in 1 .. (Len(found) + 1) : i = Len(found) + 1 \/ i \in DOMAIN found
    BY <2>2
  <2>4. \A i \in DOMAIN found : found[i] # f
    BY <1>0 DEF Range
  <2>5. \A i, j \in DOMAIN found' : i # j => found'[i] # found'[j]
    BY Zenon, <2>2, <2>3, <2>4 DEF DiscInv
  <2>6. f \in Batches[disc.batch] /\ disc.batch \in 1 .. disc.batch
    BY BatchesAssumption DEF DiscInv
  <2>7. \A i \in DOMAIN found' : /\ found'[i] \notin disc.left \ {f}
                                /\ \E k \in 1 .. disc.batch : found'[i] \in Batches[k]
    BY <2>2, <2>3, <2>6 DEF DiscInv
  <2>8. QED
    BY Zenon, <1>0, <2>1, <2>2, <2>5, <2>7 DEF DiscInv
<1>6. QED
  BY <1>1, <1>2, <1>3, <1>4, <1>5, DiscoverIds
=============================================================================

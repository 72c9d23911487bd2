---------------------------- MODULE SourceQueue ----------------------------
(***************************************************************************)
(* DirectorySourceQueue: one thread discovers files and cuts them into     *)
(* blocks, the sender threads take blocks, send them, and put back what    *)
(* was not acknowledged.  Everything between a lock and the next unlock or *)
(* wait is one step.  A thread that sends is modelled by what it does to   *)
(* the queue: it takes blocks, has some of them acknowledged, or loses its *)
(* connection and returns the others.                                      *)
(***************************************************************************)
EXTENDS Intervals, FiniteSetsExt

CONSTANTS
    Threads,        \* the sender threads (numClientThreads_)
    FileSize,       \* the size of every file the sender has, by name
    Batches,        \* the files listed first, then by the generator: sets
    Explore,        \* the directory is explored (one batch, no generator)
    BlockSize,      \* 0 if block mode is off
    Resume,         \* the receiver sends the chunks it already has
    Previous,       \* the lists of chunks it may send: functions from names
                    \* to [size, chunks, seqId]
    DeleteExtra,    \* delete_extra_files
    MaxReturns,     \* bound on the number of lost connections
    MaxDrops,       \* bound on the threads that give up with work left
    Failures        \* discovery and the opening of files may fail

VARIABLES
    queue,          \* sourceQueue_
    tries,          \* getFailedAttempts, of the blocks returned so far
    found,          \* sharedFileData_: the files discovered
    seqId,          \* the sequence id of every file with blocks
    nextSeqId,
    numBlocks,
    dequeued,       \* numBlocksDequeued_
    previous,       \* previouslyTransferredChunks_
    chunksSet,      \* the receiver's chunks have arrived
    initFinished,
    failed,         \* failedSourceStats_: sources that could not be opened
    failedFiles,    \* files whose stat, or whose directory, failed
    disc,           \* the discovery thread: its step, batch, and reading of
                    \* the number of active threads
    pc,             \* where each sender thread is
    opening,        \* the source a thread has popped and not yet opened
    held,           \* its sources that are not acknowledged
    sent,           \* the sources acknowledged
    pending,        \* the notifications a thread still owes after a return
    returns, drops  \* how often the bounded events happened

threadVars == <<pc, opening, held, sent, pending, returns, drops>>
queueVars == <<queue, tries, numBlocks, dequeued>>
fileVars == <<found, seqId, nextSeqId, previous, chunksSet>>
discVars == <<initFinished, disc, failedFiles>>
vars == <<threadVars, queueVars, fileVars, discVars, failed>>

-----------------------------------------------------------------------------
(* Sources, and the order in which they leave the queue *)

Source(f, block) == [file |-> f, off |-> block.off, size |-> block.size,
                     del |-> FALSE]
Deletion(f) == [file |-> f, off |-> 0, size |-> 0, del |-> TRUE]

Tries(b) == IF b \in DOMAIN tries THEN tries[b] ELSE 0

(* SourceComparator: deletions first, then fewer failed attempts, larger   *)
(* blocks, smaller offsets.  Ties are broken by name; the model leaves     *)
(* them open.                                                              *)
Precedes(a, b) ==
    IF a.del # b.del THEN a.del
    ELSE IF Tries(a) # Tries(b) THEN Tries(a) < Tries(b)
    ELSE IF a.size # b.size THEN a.size > b.size
    ELSE a.off < b.off

IsTop(b) == b \in queue /\ \A c \in queue : ~Precedes(c, b)

(***************************************************************************)
(* The condition variable conditionNotEmpty_.  notify_one wakes some       *)
(* waiter; smartNotify wakes as many as there are new sources, or all.     *)
(***************************************************************************)
Waiting == {t \in Threads : pc[t] = "waiting"}

Woken(p, S) == [t \in Threads |-> IF t \in S THEN "woken" ELSE p[t]]

Notified(count) ==
    IF count >= Cardinality(Threads)
    THEN {Waiting}
    ELSE {S \in SUBSET Waiting :
             Cardinality(S) = Smaller(count, Cardinality(Waiting))}

-----------------------------------------------------------------------------
(* Files to blocks *)

(***************************************************************************)
(* createIntoQueueInternal for one file: the part to send, and the         *)
(* sequence id, from what the receiver has (prev).  A file the receiver    *)
(* has in a larger size is sent whole under a new id; one it has           *)
(* completely gets no block and no new id.                                 *)
(***************************************************************************)
Whole(f) == <<Interval(0, FileSize[f])>>

IsNew(f, prev) == f \notin DOMAIN prev \/ prev[f].size > FileSize[f]

PartsToSend(f, prev) ==
    IF IsNew(f, prev) THEN Whole(f)
                      ELSE GetRemainingChunks(prev[f].chunks, FileSize[f])

SourcesOf(f, prev) ==
    LET parts == PartsToSend(f, prev)
        blocks(i) == BlocksOf(parts[i], BlockLimit(FileSize[f], BlockSize))
    IN  {Source(f, b) : b \in UNION {Range(blocks(i)) : i \in DOMAIN parts}}

HasBlocks(f, prev) == IsNew(f, prev) \/ PartsToSend(f, prev) # <<>>

(* Mutation: a file the receiver has in part is cut up as if it were new. *)
CreateIntoQueue_IgnoresChunks(acc, f, prev) ==
    LET new == SourcesOf(f, <<>>)
        id == IF IsNew(f, prev) THEN acc.nextSeqId ELSE prev[f].seqId
    IN  [queue |-> acc.queue \cup new,
         numBlocks |-> acc.numBlocks + Cardinality(new),
         seqId |-> [g \in DOMAIN acc.seqId \cup {f} |->
                       IF g = f THEN id ELSE acc.seqId[g]],
         nextSeqId |-> IF IsNew(f, prev) THEN acc.nextSeqId + 1
                                         ELSE acc.nextSeqId]

CreateIntoQueue(acc, f, prev) ==
    LET new == SourcesOf(f, prev)
        id == IF IsNew(f, prev) THEN acc.nextSeqId ELSE prev[f].seqId
    IN  IF ~HasBlocks(f, prev)
        THEN acc
        ELSE [queue |-> acc.queue \cup new,
              numBlocks |-> acc.numBlocks + Cardinality(new),
              seqId |-> [g \in DOMAIN acc.seqId \cup {f} |->
                            IF g = f THEN id ELSE acc.seqId[g]],
              nextSeqId |-> IF IsNew(f, prev) THEN acc.nextSeqId + 1
                                              ELSE acc.nextSeqId]

(***************************************************************************)
(* createIntoQueueInternal for one file of all after the other, into an    *)
(* empty queue: the new files get their ids in the order of all, from the  *)
(* id first on.                                                            *)
(***************************************************************************)
Queued(all, prev) == {f \in Range(all) : HasBlocks(f, prev)}

NewBefore(i, all, prev) == {j \in 1 .. (i - 1) : IsNew(all[j], prev)}

Recreated(all, prev, first) ==
    LET blocks == UNION {SourcesOf(f, prev) : f \in Queued(all, prev)}
        place(f) == CHOOSE i \in DOMAIN all : all[i] = f
    IN  [queue |-> blocks,
         numBlocks |-> Cardinality(blocks),
         seqId |-> [f \in Queued(all, prev) |->
                       IF IsNew(f, prev)
                       THEN first + Cardinality(NewBefore(place(f), all, prev))
                       ELSE prev[f].seqId],
         nextSeqId |-> first + Cardinality(NewBefore(Len(all) + 1, all, prev))]

(* What the operations change together. *)
Acc == [queue |-> queue, numBlocks |-> numBlocks, seqId |-> seqId,
        nextSeqId |-> nextSeqId]

SetAcc(acc) ==
    /\ queue' = acc.queue
    /\ numBlocks' = acc.numBlocks
    /\ seqId' = acc.seqId
    /\ nextSeqId' = acc.nextSeqId

(***************************************************************************)
(* enqueueFilesToBeDeleted: the receiver's files that were not discovered, *)
(* once both the discovery and the list of chunks are complete.            *)
(***************************************************************************)
ExtraFiles(prev, all) == DOMAIN prev \ Range(all)

EnqueueFilesToBeDeleted(acc, prev, all, finished) ==
    IF ~DeleteExtra \/ ~finished
    THEN acc
    ELSE LET extra == ExtraFiles(prev, all)
         IN  [acc EXCEPT !.queue = @ \cup {Deletion(f) : f \in extra},
                         !.numBlocks = @ + Cardinality(extra),
                         !.seqId = [f \in DOMAIN @ \cup extra |->
                                       IF f \in extra THEN prev[f].seqId
                                                      ELSE acc.seqId[f]]]

-----------------------------------------------------------------------------
(***************************************************************************)
(* What the receiver keeps of a file and the blocks made of it are the     *)
(* whole file, without overlap; an empty file has one block.               *)
(***************************************************************************)
Kept(f, prev) == IF IsNew(f, prev) THEN {} ELSE BytesOf(prev[f].chunks)

BlockBytes(b) == b.off .. (b.off + b.size - 1)

Completes(blocks, f, prev) ==
    /\ Kept(f, prev) \cup UNION {BlockBytes(b) : b \in blocks}
          = 0 .. (FileSize[f] - 1)
    /\ \A b \in blocks : BlockBytes(b) \cap Kept(f, prev) = {}
    /\ \A b, c \in blocks : b # c => BlockBytes(b) \cap BlockBytes(c) = {}
    /\ IsNew(f, prev) => blocks # {}

(* No file is listed twice. *)
ASSUME BatchesAssumption ==
    /\ Batches \in Seq(SUBSET DOMAIN FileSize) /\ Batches # <<>>
    /\ \A i, j \in DOMAIN Batches : i # j => Batches[i] \cap Batches[j] = {}

ASSUME ThreadsAssumption == IsFiniteSet(Threads)

(* The receiver tells of finitely many files, by different ids, one of     *)
(* which is then the largest.                                              *)
ASSUME PreviousAssumption ==
    \A prev \in Previous :
        /\ IsFiniteSet(DOMAIN prev)
        /\ \A f \in DOMAIN prev : prev[f].seqId \in Nat
        /\ DOMAIN prev # {} =>
              \E f \in DOMAIN prev : \A g \in DOMAIN prev : prev[g].seqId <= prev[f].seqId
        /\ \A f, g \in DOMAIN prev : f # g => prev[f].seqId # prev[g].seqId

(* The arithmetic on the chunks of one file, which ChunksExact of MCStorage *)
(* checks for all lists of chunks of small files.                          *)
ASSUME SplitAssumption ==
    \A prev \in Previous \cup {<<>>}, f \in DOMAIN FileSize :
        /\ IsFiniteSet(SourcesOf(f, prev))
        /\ Completes(SourcesOf(f, prev), f, prev)
        /\ ~HasBlocks(f, prev) => SourcesOf(f, prev) = {}

-----------------------------------------------------------------------------
Init ==
    /\ queue = {}
    /\ tries = <<>>
    /\ found = <<>>
    /\ seqId = <<>>
    /\ nextSeqId = 1
    /\ numBlocks = 0
    /\ dequeued = 0
    /\ previous = <<>>
    /\ chunksSet = FALSE
    /\ initFinished = FALSE
    /\ failed = {}
    /\ failedFiles = {}
    /\ disc = [step |-> "files", batch |-> 1, left |-> Batches[1], active |-> 0]
    /\ pc = [t \in Threads |-> "idle"]
    /\ opening = [t \in Threads |-> {}]
    /\ held = [t \in Threads |-> {}]
    /\ sent = {}
    /\ pending = [t \in Threads |-> 0]
    /\ returns = 0
    /\ drops = 0

-----------------------------------------------------------------------------
(* The discovery thread: buildQueueSynchronously *)

Active == {t \in Threads : pc[t] # "end"}
Finished == Active = {}     \* the last thread to end sets FINISHED

(* createIntoQueue *)
Discover(f) ==
    /\ disc.step = "files"
    /\ f \in disc.left
    /\ disc' = [disc EXCEPT !.left = @ \ {f}]
    /\ found' = Append(found, f)
    /\ LET acc == CreateIntoQueue(Acc, f, previous)
       IN  /\ SetAcc(acc)
           /\ \E S \in Notified(acc.numBlocks - numBlocks) : pc' = Woken(pc, S)
    /\ UNCHANGED <<tries, dequeued, previous, chunksSet, initFinished, failed,
                   failedFiles, opening, held, sent, pending, returns, drops>>

(* A directory that cannot be opened hides its files and the exploration   *)
(* goes on; a listed file that cannot be stat'ed ends the listing.         *)
DiscoverFails(f) ==
    /\ Failures
    /\ disc.step = "files"
    /\ f \in disc.left
    /\ failedFiles' = failedFiles \cup {f}
    /\ disc' = IF Explore THEN [disc EXCEPT !.left = @ \ {f}]
                          ELSE [disc EXCEPT !.step = "finish"]
    /\ UNCHANGED <<threadVars, queueVars, fileVars, initFinished, failed>>

AbortDiscovery ==
    /\ disc.step = "files"
    /\ disc.left # {}
    /\ Finished
    /\ disc' = [disc EXCEPT !.step = "finish"]
    /\ UNCHANGED <<threadVars, queueVars, fileVars, initFinished, failedFiles,
                   failed>>

EndOfBatch ==
    /\ disc.step = "files"
    /\ disc.left = {}
    /\ disc' = [disc EXCEPT !.step =
                   IF Explore \/ Len(Batches) = 1 THEN "finish" ELSE "active"]
    /\ UNCHANGED <<threadVars, queueVars, fileVars, initFinished, failedFiles,
                   failed>>

(***************************************************************************)
(* getFilesFromFileInfoGenerator and waitForPreviousTransfer: the number   *)
(* of active threads is read without the lock; then, under it, the queue   *)
(* must be empty and that many threads must be waiting.                    *)
(***************************************************************************)
ReadActiveThreads ==
    /\ disc.step = "active"
    /\ disc' = [disc EXCEPT !.step = "check", !.active = Cardinality(Active)]
    /\ UNCHANGED <<threadVars, queueVars, fileVars, initFinished, failedFiles,
                   failed>>

Waiters == {t \in Threads : pc[t] \in {"waiting", "woken"}}     \* numWaiters_

CheckPreviousTransfer ==
    /\ disc.step = "check"
    /\ disc' = [disc EXCEPT !.step =
                   IF queue = {} /\ Cardinality(Waiters) >= disc.active
                   THEN "generate" ELSE "poll"]
    /\ UNCHANGED <<threadVars, queueVars, fileVars, initFinished, failedFiles,
                   failed>>

PollPreviousTransfer ==
    /\ disc.step = "poll"
    /\ disc' = [disc EXCEPT !.step = IF Finished THEN "generate" ELSE "check",
                            !.active = IF Finished THEN @ ELSE Cardinality(Active)]
    /\ UNCHANGED <<threadVars, queueVars, fileVars, initFinished, failedFiles,
                   failed>>

Generate ==
    /\ disc.step = "generate"
    /\ disc' = IF Finished \/ disc.batch = Len(Batches)
               THEN [disc EXCEPT !.step = "finish"]
               ELSE [disc EXCEPT !.step = "files", !.batch = @ + 1,
                                 !.left = Batches[disc.batch + 1]]
    /\ UNCHANGED <<threadVars, queueVars, fileVars, initFinished, failedFiles,
                   failed>>

FinishDiscovery_NoWake ==
    /\ disc.step = "finish"
    /\ disc' = [disc EXCEPT !.step = "done"]
    /\ initFinished' = TRUE
    /\ LET acc == EnqueueFilesToBeDeleted(Acc, previous, found, TRUE)
       IN  /\ SetAcc(acc)
           /\ \E S \in Notified(acc.numBlocks - numBlocks) : pc' = Woken(pc, S)
    /\ UNCHANGED <<tries, dequeued, found, previous, chunksSet, failed,
                   failedFiles, opening, held, sent, pending, returns, drops>>

FinishDiscovery ==
    /\ disc.step = "finish"
    /\ disc' = [disc EXCEPT !.step = "done"]
    /\ initFinished' = TRUE
    /\ LET acc == EnqueueFilesToBeDeleted(Acc, previous, found, TRUE)
       IN  /\ SetAcc(acc)
           /\ \E S \in Notified(acc.numBlocks - numBlocks) :
                  pc' = Woken(pc, IF acc.queue = {} THEN Waiting ELSE S)
    /\ UNCHANGED <<tries, dequeued, found, previous, chunksSet, failed,
                   failedFiles, opening, held, sent, pending, returns, drops>>

(***************************************************************************)
(* setPreviouslyReceivedChunks: the queue is rebuilt from the files found  *)
(* so far.  It comes before the first block is taken, so nobody waits.     *)
(***************************************************************************)
FirstSeqId(prev) ==
    IF DOMAIN prev = {} THEN 0 ELSE Max({prev[f].seqId : f \in DOMAIN prev}) + 1

SetPreviouslyReceivedChunks_KeepsIds(prev) ==
    /\ Resume /\ ~chunksSet
    /\ chunksSet' = TRUE
    /\ previous' = prev
    /\ SetAcc(EnqueueFilesToBeDeleted(Recreated(found, prev, 1), prev, found,
                                      initFinished))
    /\ UNCHANGED <<tries, dequeued, found, discVars, failed, threadVars>>

SetPreviouslyReceivedChunks(prev) ==
    /\ Resume /\ ~chunksSet
    /\ chunksSet' = TRUE
    /\ previous' = prev
    /\ SetAcc(EnqueueFilesToBeDeleted(Recreated(found, prev, FirstSeqId(prev)),
                                      prev, found, initFinished))
    /\ UNCHANGED <<tries, dequeued, found, discVars, failed, threadVars>>

-----------------------------------------------------------------------------
(* The sender threads *)

TakeNext_EmptyIsNull(t) ==
    IF queue = {}
    THEN /\ pc' = [pc EXCEPT ![t] = "null"]
         /\ UNCHANGED <<queue, opening>>
    ELSE \E b \in queue :
            /\ IsTop(b)
            /\ queue' = queue \ {b}
            /\ opening' = [opening EXCEPT ![t] = {b}]
            /\ pc' = [Woken(pc, IF initFinished /\ queue' = {} THEN Waiting ELSE {})
                         EXCEPT ![t] = "opening"]

(* The test of getNextSource, under the lock: wait, give up, or pop.  The  *)
(* thread that empties the queue after the discovery wakes the others.     *)
TakeNext(t) ==
    IF queue = {}
    THEN /\ pc' = [pc EXCEPT ![t] = IF initFinished THEN "null" ELSE "waiting"]
         /\ UNCHANGED <<queue, opening>>
    ELSE \E b \in queue :
            /\ IsTop(b)
            /\ queue' = queue \ {b}
            /\ opening' = [opening EXCEPT ![t] = {b}]
            /\ pc' = [Woken(pc, IF initFinished /\ queue' = {} THEN Waiting ELSE {})
                         EXCEPT ![t] = "opening"]

GetNextSource(t) ==
    /\ pc[t] \in {"idle", "again", "woken"}
    /\ Resume => chunksSet
    /\ TakeNext(t)
    /\ UNCHANGED <<tries, numBlocks, dequeued, fileVars, discVars, failed, held,
                   sent, pending, returns, drops>>

Opened(t) ==
    /\ pc[t] = "opening"
    /\ pc' = [pc EXCEPT ![t] = "idle"]
    /\ held' = [held EXCEPT ![t] = @ \cup opening[t]]
    /\ opening' = [opening EXCEPT ![t] = {}]
    /\ dequeued' = dequeued + 1
    /\ UNCHANGED <<queue, tries, numBlocks, fileVars, discVars, failed, sent,
                   pending, returns, drops>>

(* A source that cannot be opened is given up, and the thread tries the    *)
(* next one.  There is nothing to open for a deletion.                     *)
OpenFails(t) ==
    /\ Failures
    /\ pc[t] = "opening"
    /\ \A b \in opening[t] : ~b.del
    /\ pc' = [pc EXCEPT ![t] = "again"]
    /\ failed' = failed \cup opening[t]
    /\ opening' = [opening EXCEPT ![t] = {}]
    /\ UNCHANGED <<queueVars, fileVars, discVars, held, sent, pending, returns,
                   drops>>

(* The receiver acknowledged what the thread sent (a checkpoint, or DONE). *)
Acknowledge(t) ==
    /\ pc[t] \in {"idle", "null"}
    /\ held[t] # {}
    /\ \E S \in (SUBSET held[t]) \ {{}} :
           /\ held' = [held EXCEPT ![t] = @ \ S]
           /\ sent' = sent \cup S
    /\ UNCHANGED <<queueVars, fileVars, discVars, failed, pc, opening, pending,
                   returns, drops>>

(* returnToQueue, after a lost connection.  The notifications come after   *)
(* the lock is released.                                                   *)
ReturnToQueue_KeepsCount(t) ==
    /\ pc[t] \in {"idle", "null"}
    /\ held[t] # {}
    /\ returns < MaxReturns
    /\ returns' = returns + 1
    /\ queue' = queue \cup held[t]
    /\ tries' = [b \in DOMAIN tries \cup held[t] |->
                    Tries(b) + (IF b \in held[t] THEN 1 ELSE 0)]
    /\ held' = [held EXCEPT ![t] = {}]
    /\ pending' = [pending EXCEPT ![t] = Cardinality(held[t])]
    /\ pc' = [pc EXCEPT ![t] = "notify"]
    /\ UNCHANGED <<numBlocks, dequeued, fileVars, discVars, failed, opening, sent,
                   drops>>

ReturnToQueue(t) ==
    /\ pc[t] \in {"idle", "null"}
    /\ held[t] # {}
    /\ returns < MaxReturns
    /\ returns' = returns + 1
    /\ queue' = queue \cup held[t]
    /\ tries' = [b \in DOMAIN tries \cup held[t] |->
                    Tries(b) + (IF b \in held[t] THEN 1 ELSE 0)]
    /\ dequeued' = dequeued - Cardinality(held[t])
    /\ held' = [held EXCEPT ![t] = {}]
    /\ pending' = [pending EXCEPT ![t] = Cardinality(held[t])]
    /\ pc' = [pc EXCEPT ![t] = "notify"]
    /\ UNCHANGED <<numBlocks, fileVars, discVars, failed, opening, sent, drops>>

SmartNotify(t) ==
    /\ pc[t] = "notify"
    /\ \E S \in Notified(pending[t]) : pc' = [Woken(pc, S) EXCEPT ![t] = "idle"]
    /\ pending' = [pending EXCEPT ![t] = 0]
    /\ UNCHANGED <<queueVars, fileVars, discVars, failed, opening, held, sent,
                   returns, drops>>

(* A thread ends after nothing was left for it, or because it could not    *)
(* connect any more; it holds nothing then.                                *)
End(t) ==
    /\ held[t] = {}
    /\ \/ pc[t] = "null" /\ UNCHANGED drops
       \/ pc[t] = "idle" /\ drops < MaxDrops /\ drops' = drops + 1
    /\ pc' = [pc EXCEPT ![t] = "end"]
    /\ UNCHANGED <<queueVars, fileVars, discVars, failed, opening, held, sent,
                   pending, returns>>

Discovery ==
    \/ \E f \in disc.left : Discover(f) \/ DiscoverFails(f)
    \/ AbortDiscovery \/ EndOfBatch
    \/ ReadActiveThreads \/ CheckPreviousTransfer \/ PollPreviousTransfer
    \/ Generate \/ FinishDiscovery

(* Done by the thread that read the chunks. *)
SetChunks ==
    /\ ~Finished
    /\ \E prev \in Previous : SetPreviouslyReceivedChunks(prev)

Work(t) ==
    \/ GetNextSource(t) \/ Opened(t) \/ OpenFails(t)
    \/ Acknowledge(t) \/ ReturnToQueue(t) \/ SmartNotify(t) \/ End(t)

Next == Discovery \/ SetChunks \/ \E t \in Threads : Work(t)

Spec == Init /\ [][Next]_vars

(***************************************************************************)
(* Every thread the code starts is scheduled, a file is discovered or      *)
(* found unreadable, a source in the act of being opened is opened or not, *)
(* and what a thread that has nothing more to take holds is acknowledged   *)
(* or returned.  Nothing makes a thread lose its connection or give up.    *)
(***************************************************************************)
Fairness ==
    /\ WF_vars(Discovery)
    /\ WF_vars(SetChunks)
    /\ \A t \in Threads :
          /\ WF_vars(GetNextSource(t))
          /\ WF_vars(Opened(t) \/ OpenFails(t))
          /\ WF_vars(SmartNotify(t))
          /\ WF_vars(pc[t] = "null" /\ (Acknowledge(t) \/ End(t)))

FairSpec == Spec /\ Fairness

-----------------------------------------------------------------------------
(* Properties *)

Opening == UNION {opening[t] : t \in Threads}
Held == UNION {held[t] : t \in Threads}
Sources == queue \cup Opening \cup Held \cup sent \cup failed

(***************************************************************************)
(* The counters the sender reports and sends to the receiver agree with    *)
(* the blocks: numBlocks_ counts every block made, numBlocksDequeued_ the  *)
(* ones threads took and kept, and no block is in two places (getNext-     *)
(* Source, returnToQueue, createIntoQueueInternal).                        *)
(***************************************************************************)
With(t) == opening[t] \cup held[t]

InOnePlace ==
    /\ \A t \in Threads :
          /\ opening[t] \cap held[t] = {}
          /\ With(t) \cap (queue \cup sent \cup failed) = {}
          /\ \A u \in Threads \ {t} : With(t) \cap With(u) = {}
    /\ queue \cap (sent \cup failed) = {}
    /\ sent \cap failed = {}

EveryBlockOnce ==
    /\ numBlocks = Cardinality(Sources)
    /\ dequeued = Cardinality(Held \cup sent)
    /\ InOnePlace

(***************************************************************************)
(* Whatever was discovered before and after the receiver's chunks came,    *)
(* what the receiver keeps of a file and the blocks made of it are the     *)
(* whole file, without overlap.                                            *)
(***************************************************************************)
FilesComplete ==
    \A f \in Range(found) :
        Completes({b \in Sources : b.file = f /\ ~b.del}, f, previous)

(***************************************************************************)
(* Two files never share a sequence id, and a file that is sent anew never *)
(* takes the id of a file the receiver has (setPreviouslyReceivedChunks).  *)
(***************************************************************************)
SeqIdsDistinct ==
    /\ \A f, g \in DOMAIN seqId : f # g => seqId[f] # seqId[g]
    /\ \A f \in DOMAIN seqId \cap Range(found) :
          IsNew(f, previous) =>
              \A g \in DOMAIN previous : seqId[f] # previous[g].seqId

(***************************************************************************)
(* Every thread ends and so does the discovery: no waiter sleeps through   *)
(* the last notification, and waitForPreviousTransfer waits for nobody who *)
(* has left.                                                               *)
(***************************************************************************)
AllEnd == <>(Finished /\ disc.step = "done")

-----------------------------------------------------------------------------
(***************************************************************************)
(* The queue implements the pool of blocks its users assume.  A source     *)
(* being opened belongs to the thread that popped it.                      *)
(***************************************************************************)
AllSources ==
    {Deletion(f) : f \in UNION {DOMAIN prev : prev \in Previous}}
        \cup UNION {SourcesOf(f, prev) : f \in DOMAIN FileSize,
                                        prev \in Previous \cup {<<>>}}

Pool == INSTANCE BlockPool WITH
            Blocks <- AllSources,
            pool <- queue,
            held <- [t \in Threads |-> held[t] \cup opening[t]],
            settled <- sent \cup failed,
            closed <- initFinished,
            dismissed <- {t \in Threads : pc[t] = "null"}

ImplementsPool == Pool!Spec
=============================================================================

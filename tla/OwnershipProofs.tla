-------------------------- MODULE OwnershipProofs --------------------------
(***************************************************************************)
(* The sources of the sender, for any number of ports, blocks, connections *)
(* and failures: no block is lost, none is held twice, and                 *)
(* numBlocksDequeued_ counts the sources that the threads hold.            *)
(***************************************************************************)
EXTENDS TransferProofs, FiniteSetTheorems

(* A checkpoint moves a source from the history to the queue or leaves it:
   setCheckpointAndReturnToQueue drops none. *)
LEMMA SetCheckpointKeepsBlocks ==
    ASSUME NEW h \in History, NEW ck \in Checkpoint, NEW g \in BOOLEAN, NEW b,
           InHistory(h, b)
    PROVE  \/ InHistory(SetCheckpoint(h, ck, g), b)
           \/ \E s \in SourcesToReturn(h, ck, g) : s.blk = b
<1>1. CASE SetCheckpointCode(h, ck, g) = "INVALID_CHECKPOINT"
  BY <1>1 DEF SetCheckpoint
<1>2. CASE SetCheckpointCode(h, ck, g) # "INVALID_CHECKPOINT"
  <2>1. h.src \in Seq(Source) /\ ck.numBlocks \in Nat /\ Len(h.src) \in Nat
    BY HistoryType, CheckpointType
  <2>2. ck.numBlocks <= Len(h.src)
    BY <1>2, <2>1 DEF SetCheckpointCode
  <2>3. PICK i \in 1..Len(h.src) : h.src[i].blk = b
    BY DEF InHistory
  <2>4. CASE i <= ck.numBlocks
    <3>1. SetCheckpoint(h, ck, g).src = SubSeq(h.src, 1, ck.numBlocks)
      BY Zenon, <1>2 DEF SetCheckpoint, History
    <3>2. /\ Len(SubSeq(h.src, 1, ck.numBlocks)) = ck.numBlocks
          /\ SubSeq(h.src, 1, ck.numBlocks)[i] = h.src[i]
      BY <2>1, <2>2, <2>4
    <3>3. i \in 1..ck.numBlocks
      BY <2>1, <2>4
    <3>4. QED
      BY Zenon, <2>3, <3>1, <3>2, <3>3 DEF InHistory
  <2>5. CASE ~(i <= ck.numBlocks)
    <3>1. i \in ck.numBlocks + 1 .. Len(h.src) /\ h.src[i] \in Source
      BY <2>1, <2>5
    <3>2. MarkSourceAsFailed(h.src[i], IF i = ck.numBlocks + 1 THEN ck ELSE NoCheckpoint)
            \in SourcesToReturn(h, ck, g)
      BY <1>2, <3>1 DEF SourcesToReturn
    <3>3. MarkSourceAsFailed(h.src[i], IF i = ck.numBlocks + 1 THEN ck ELSE NoCheckpoint).blk = b
      BY <2>3, <3>1, MarkSourceAsFailedType
    <3>4. QED
      BY <3>2, <3>3
  <2>6. QED
    BY <2>4, <2>5
<1>3. QED
  BY <1>1, <1>2

(* addSource appends the source to the history, or returns it to the queue
   when the connection has had its global checkpoint. *)
LEMMA AddSourceKeepsBlocks ==
    ASSUME NEW h \in History, NEW s \in Source
    PROVE  /\ \A b : InHistory(h, b) => InHistory(AddSource(h, s), b)
           /\ h.global => \E t \in SourceToReturn(h, s) : t.blk = s.blk
           /\ ~h.global => InHistory(AddSource(h, s), s.blk)
<1>1. h.src \in Seq(Source) /\ Len(h.src) \in Nat
  BY HistoryType
<1>2. CASE h.global
  <2>1. AddSource(h, s).src = h.src
    BY <1>2 DEF AddSource, History
  <2>2. MarkSourceAsFailed(s, h.last).blk = s.blk
    BY HistoryType, MarkSourceAsFailedType
  <2>3. QED
    BY <1>2, <2>1, <2>2 DEF InHistory, SourceToReturn
<1>3. CASE ~h.global
  <2>1. AddSource(h, s).src = Append(h.src, s)
    BY <1>3 DEF AddSource, History
  <2>2. /\ Len(Append(h.src, s)) = Len(h.src) + 1
        /\ Append(h.src, s)[Len(h.src) + 1] = s
        /\ \A i \in 1..Len(h.src) : Append(h.src, s)[i] = h.src[i]
    BY <1>1
  <2>3. InHistory(AddSource(h, s), s.blk)
    BY <1>1, <2>1, <2>2 DEF InHistory
  <2>4. ASSUME NEW b, InHistory(h, b)
        PROVE  InHistory(AddSource(h, s), b)
    <3>1. PICK i \in 1..Len(h.src) : h.src[i].blk = b
      BY <2>4 DEF InHistory
    <3>2. i \in 1..(Len(h.src) + 1)
      BY <1>1
    <3>3. QED
      BY <2>1, <2>2, <3>1, <3>2 DEF InHistory
  <2>5. QED
    BY <1>3, <2>3, <2>4
<1>4. QED
  BY <1>2, <1>3

-----------------------------------------------------------------------------
(* A step that leaves the sources alone owns the same blocks. *)
LEMMA QuietStep ==
    ASSUME EveryBlockOwned, SourcesUntouched
    PROVE  EveryBlockOwned'
BY DEF EveryBlockOwned, SourcesUntouched, InQueue, Sending, InHistory

(* getNextSource hands a source from the queue to a thread that holds none. *)
LEMMA TakesSourceKeepsBlocks ==
    ASSUME SenderTypes, EveryBlockOwned, NEW p \in Ports, TakesSource(p)
    PROVE  EveryBlockOwned'
<1>1. PICK s \in queue : queue' = queue \ {s} /\ cur' = [cur EXCEPT ![p] = s]
  BY Zenon DEF TakesSource
<1>2. hist' = hist /\ cur[p] = NoSource /\ s \in Source /\ s # NoSource
  BY <1>1, NoSourceIsNone DEF TakesSource, SenderTypes
<1> SUFFICES ASSUME NEW b \in Blocks
             PROVE  InQueue(b)' \/ \E q \in Ports : Sending(q, b)' \/ InHistory(hist'[q], b)
  BY DEF EveryBlockOwned
<1>3. CASE InQueue(b)
  <2>1. PICK t \in queue : t.blk = b
    BY <1>3 DEF InQueue
  <2>2. CASE t = s
    BY <1>1, <1>2, <2>1, <2>2 DEF Sending, SenderTypes
  <2>3. CASE t # s
    BY <1>1, <2>1, <2>3 DEF InQueue
  <2>4. QED
    BY <2>2, <2>3
<1>4. ASSUME NEW q \in Ports, Sending(q, b)
      PROVE  Sending(q, b)'
  <2>1. q # p
    BY <1>2, <1>4 DEF Sending
  <2>2. QED
    BY <1>1, <1>4, <2>1 DEF Sending, SenderTypes
<1>5. CASE \E q \in Ports : InHistory(hist[q], b)
  BY <1>2, <1>5
<1>6. QED
  BY <1>3, <1>4, <1>5 DEF EveryBlockOwned

(* The source a thread has sent goes to its history or back to the queue. *)
LEMMA AddsSourceKeepsBlocks ==
    ASSUME SenderTypes, EveryBlockOwned, NEW p \in Ports, AddsSource(p)
    PROVE  EveryBlockOwned'
<1>1. cur[p] \in Source /\ hist[p] \in History /\ cur' = [cur EXCEPT ![p] = NoSource]
  BY DEF AddsSource, SenderTypes
<1>2. ASSUME NEW b, InHistory(AddSource(hist[p], cur[p]), b)
      PROVE  InHistory(hist'[p], b)
  BY <1>2 DEF AddsSource, InHistory
<1>3. ASSUME NEW q \in Ports, NEW b, InHistory(hist[q], b)
      PROVE  InHistory(hist'[q], b)
  <2>1. CASE q = p
    BY <1>1, <1>2, <1>3, <2>1, AddSourceKeepsBlocks
  <2>2. CASE q # p
    BY <1>3, <2>2 DEF AddsSource, InHistory
  <2>3. QED
    BY <2>1, <2>2
<1>4. queue \subseteq queue' /\ SourceToReturn(hist[p], cur[p]) \subseteq queue'
  BY DEF AddsSource
<1> SUFFICES ASSUME NEW b \in Blocks
             PROVE  InQueue(b)' \/ \E q \in Ports : Sending(q, b)' \/ InHistory(hist'[q], b)
  BY DEF EveryBlockOwned
<1>8. CASE InQueue(b)
  BY <1>4, <1>8 DEF InQueue
<1>9. ASSUME NEW q \in Ports, Sending(q, b)
      PROVE  InQueue(b)' \/ Sending(q, b)' \/ InHistory(hist'[q], b)
  <2>1. CASE q # p
    BY <1>1, <1>9, <2>1 DEF Sending, SenderTypes
  <2>2. CASE q = p /\ hist[p].global
    <3>1. PICK t \in SourceToReturn(hist[p], cur[p]) : t.blk = cur[p].blk
      BY <1>1, <2>2, AddSourceKeepsBlocks
    <3>2. QED
      BY <1>4, <1>9, <2>2, <3>1 DEF InQueue, Sending
  <2>3. CASE q = p /\ ~hist[p].global
    <3>1. InHistory(AddSource(hist[p], cur[p]), cur[p].blk)
      BY <1>1, <2>3, AddSourceKeepsBlocks
    <3>2. QED
      BY <1>2, <1>9, <2>3, <3>1 DEF Sending
  <2>4. QED
    BY <2>1, <2>2, <2>3
<1>10. ASSUME NEW q \in Ports, InHistory(hist[q], b)
       PROVE  InHistory(hist'[q], b)
  BY <1>3, <1>10
<1>11. QED
  BY <1>8, <1>9, <1>10 DEF EveryBlockOwned

(* A checkpoint of port q is set: what the history gives up is in the queue. *)
LEMMA CheckpointStep ==
    ASSUME SenderTypes, EveryBlockOwned, NEW q \in Ports, NEW ck \in Checkpoint,
           NEW g \in BOOLEAN, SetsCheckpoint(q, ck, g)
    PROVE  EveryBlockOwned'
<1> USE DEF SetsCheckpoint
<1> SUFFICES ASSUME NEW b \in Blocks
             PROVE  InQueue(b)' \/ \E p \in Ports : Sending(p, b)' \/ InHistory(hist'[p], b)
  BY DEF EveryBlockOwned
<1>1. CASE InQueue(b)
  BY <1>1 DEF InQueue
<1>2. CASE \E p \in Ports : Sending(p, b)
  BY <1>2 DEF Sending
<1>3. ASSUME NEW p \in Ports, InHistory(hist[p], b)
      PROVE  InQueue(b)' \/ InHistory(hist'[p], b)
  <2>1. CASE p = q
    <3>1. hist[q] \in History /\ hist'[q] = SetCheckpoint(hist[q], ck, g)
      BY DEF SenderTypes
    <3>2. \/ InHistory(SetCheckpoint(hist[q], ck, g), b)
          \/ \E s \in SourcesToReturn(hist[q], ck, g) : s.blk = b
      BY <1>3, <2>1, <3>1, SetCheckpointKeepsBlocks
    <3>3. QED
      BY <2>1, <3>1, <3>2 DEF InQueue
  <2>2. CASE p # q
    BY <1>3, <2>2 DEF SenderTypes
  <2>3. QED
    BY <2>1, <2>2
<1>4. QED
  BY <1>1, <1>2, <1>3 DEF EveryBlockOwned

(* Sender::finish returns to the queue what it drops from the histories. *)
LEMMA FinishKeepsBlocks ==
    ASSUME SenderTypes, EveryBlockOwned, Finish
    PROVE  EveryBlockOwned'
<1>1. CASE AllSourcesAcked
  <2>1. \A q \in Ports : hist'[q].src = hist[q].src /\ hist'[q].last = hist[q].last
    BY <1>1, HistoryUpdateType DEF Finish, SenderTypes
  <2>2. QED
    BY <1>1, <2>1, QuietStep DEF Finish, SourcesUntouched
<1>2. CASE ~AllSourcesAcked
  <2>1. /\ cur' = cur
        /\ hist' = [p \in Ports |-> ReturnUnackedSources(hist[p], p)]
        /\ queue' = queue \cup UNION {UnackedSources(hist[p], p) : p \in Ports}
    BY <1>2 DEF Finish, ReturnToQueue
  <2> SUFFICES ASSUME NEW b \in Blocks
               PROVE  InQueue(b)' \/ \E p \in Ports : Sending(p, b)' \/ InHistory(hist'[p], b)
    BY DEF EveryBlockOwned
  <2>2. CASE InQueue(b)
    BY <2>1, <2>2 DEF InQueue
  <2>3. CASE \E p \in Ports : Sending(p, b)
    BY <2>1, <2>3 DEF Sending
  <2>4. ASSUME NEW p \in Ports, InHistory(hist[p], b)
        PROVE  InQueue(b)' \/ InHistory(hist'[p], b)
    <3>1. hist[p] \in History /\ UnackedCheckpoint(hist[p], p) \in Checkpoint
      BY UnackedCheckpointType DEF SenderTypes
    <3>2. \/ InHistory(ReturnUnackedSources(hist[p], p), b)
          \/ \E s \in UnackedSources(hist[p], p) : s.blk = b
      <4>1. \A g \in BOOLEAN :
               \/ InHistory(SetCheckpoint(hist[p], UnackedCheckpoint(hist[p], p), g), b)
               \/ \E s \in SourcesToReturn(hist[p], UnackedCheckpoint(hist[p], p), g) : s.blk = b
        BY <2>4, <3>1, SetCheckpointKeepsBlocks
      <4>2. QED
        BY Zenon, <4>1 DEF ReturnUnackedSources, UnackedSources
    <3>3. hist'[p] = ReturnUnackedSources(hist[p], p)
      BY <2>1
    <3>4. UnackedSources(hist[p], p) \subseteq queue'
      BY <2>1
    <3>5. CASE InHistory(ReturnUnackedSources(hist[p], p), b)
      BY <3>3, <3>5
    <3>6. CASE \E s \in UnackedSources(hist[p], p) : s.blk = b
      BY <3>4, <3>6 DEF InQueue
    <3>7. QED
      BY <3>2, <3>5, <3>6
  <2>5. QED
    BY Zenon, <2>2, <2>3, <2>4 DEF EveryBlockOwned
<1>3. QED
  BY <1>1, <1>2

(* No handler of a sender thread loses a block. *)
LEMMA SenderKeepsBlocks ==
    ASSUME NetTypeOK, SenderTypes, SenderInv, EveryBlockOwned, NEW p \in Ports, SenderStep(p)
    PROVE  EveryBlockOwned'
BY SenderStepKinds, QuietStep, TakesSourceKeepsBlocks, AddsSourceKeepsBlocks, CheckpointStep

(* Ownership is inductive once the types are known. *)
OwnershipInv == TypeInv /\ EveryBlockOwned

(* No step of the transfer loses a block: the receiver and the network do not
   touch the queue, the histories or the sources being sent. *)
LEMMA NextKeepsBlocks == OwnershipInv /\ [Next]_vars => EveryBlockOwned'
<1> SUFFICES ASSUME TypeInv, EveryBlockOwned, [Next]_vars PROVE EveryBlockOwned'
  BY DEF OwnershipInv
<1>1. NetTypeOK /\ SenderTypes /\ SenderInv
  BY DEF TypeInv
<1>2. ASSUME NEW p \in Ports, SenderStep(p)
      PROVE  EveryBlockOwned'
  BY <1>1, <1>2, SenderKeepsBlocks
<1>3. CASE UNCHANGED senderVars
  BY <1>3, QuietStep DEF senderVars, SourcesUntouched
<1>4. CASE Finish
  BY <1>1, <1>4, FinishKeepsBlocks
<1>5. QED
  BY <1>2, <1>3, <1>4 DEF Next, vars

(* No block is ever lost by the sender, for any number of ports, blocks,
   connections and failures: whatever the order of addSource, of local and
   global checkpoints, of aborts and of Sender::finish, every block is in the
   queue, being sent, or in the history of a thread. *)
THEOREM NoBlockLost == Spec => []EveryBlockOwned
<1>1. Init => EveryBlockOwned
  <2> SUFFICES ASSUME Init, NEW b \in Blocks PROVE InQueue(b)
    BY DEF EveryBlockOwned
  <2>1. [blk |-> b, off |-> 0] \in queue
    BY DEF Init, SenderInit
  <2>2. QED
    BY <2>1 DEF InQueue
<1>2. Init => OwnershipInv
  BY <1>1, InitTypeInv DEF OwnershipInv
<1>3. OwnershipInv /\ [Next]_vars => OwnershipInv'
  BY NextTypeInv, NextKeepsBlocks DEF OwnershipInv
<1>4. OwnershipInv => EveryBlockOwned
  BY DEF OwnershipInv
<1>5. QED
  BY <1>2, <1>3, <1>4, PTL DEF Spec

-----------------------------------------------------------------------------
(* Held once, and counted *)

(* A place holds a source when its thread is sending one, or its history is
   that long. *)
Holds(x) == IF x[2] = 0 THEN cur[x[1]] # NoSource ELSE x[2] <= Len(hist[x[1]].src)

(* Taken are the places that hold a source. *)
TakenForm == Taken = {x \in Ports \X Nat : Holds(x)}

(* The lengths of the histories are numbers. *)
LEMMA LengthType ==
    ASSUME SenderTypes
    PROVE  \A p \in Ports : hist[p] \in History /\ hist[p].src \in Seq(Source)
                            /\ Len(hist[p].src) \in Nat
BY HistoryType DEF SenderTypes

(* The definition of Taken says the same. *)
LEMMA TakenIs == SenderTypes => TakenForm
<1> SUFFICES ASSUME SenderTypes PROVE Taken = {x \in Ports \X Nat : Holds(x)}
  BY DEF TakenForm
<1> USE LengthType
<1>1. ASSUME NEW x \in Taken
      PROVE  x \in Ports \X Nat /\ Holds(x)
  <2>1. CASE \E p \in Ports : x = <<p, 0>> /\ cur[p] # NoSource
    BY <2>1 DEF Holds
  <2>2. CASE \E p \in Ports : \E i \in 1..Len(hist[p].src) : x = <<p, i>>
    <3>1. PICK p \in Ports : \E i \in 1..Len(hist[p].src) : x = <<p, i>>
      BY <2>2
    <3>2. PICK i \in 1..Len(hist[p].src) : x = <<p, i>>
      BY <3>1
    <3>3. i \in Nat /\ i # 0 /\ i <= Len(hist[p].src)
      OBVIOUS
    <3>4. QED
      BY <3>2, <3>3 DEF Holds
  <2>3. QED
    BY <2>1, <2>2 DEF Taken
<1>2. ASSUME NEW x \in Ports \X Nat, Holds(x)
      PROVE  x \in Taken
  <2>1. PICK p \in Ports, i \in Nat : x = <<p, i>>
    OBVIOUS
  <2>2. CASE i = 0
    <3>1. cur[p] # NoSource
      BY <1>2, <2>1, <2>2 DEF Holds
    <3>2. QED
      BY <2>1, <2>2, <3>1 DEF Taken
  <2>3. CASE i # 0
    <3>1. i \in 1..Len(hist[p].src)
      BY <1>2, <2>1, <2>3 DEF Holds
    <3>2. QED
      BY <2>1, <3>1 DEF Taken
  <2>4. QED
    BY <2>2, <2>3
<1>3. QED
  BY <1>1, <1>2

(* The same after a step. *)
LEMMA TakenIsAfter == SenderTypes' => TakenForm'
BY TakenIs, PTL

(* What a place holds is a source. *)
LEMMA SourceAtType ==
    ASSUME SenderTypes, NEW x \in Taken
    PROVE  SourceAt(x) \in Source
<1>1. x \in Ports \X Nat /\ Holds(x)
  BY TakenIs DEF TakenForm
<1>2. PICK p \in Ports, i \in Nat : x = <<p, i>>
  BY <1>1
<1>3. CASE i = 0
  BY <1>1, <1>2, <1>3 DEF Holds, SourceAt, SenderTypes
<1>4. CASE i # 0
  <2>1. i \in 1..Len(hist[p].src) /\ hist[p].src \in Seq(Source)
    BY <1>1, <1>2, <1>4, LengthType DEF Holds
  <2>2. hist[p].src[i] \in Source
    BY <2>1
  <2>3. QED
    BY <1>2, <1>4, <2>2 DEF SourceAt
<1>5. QED
  BY <1>3, <1>4

(* The sources held are distinct, finitely many, and counted. *)
Held == OwnedOnce /\ IsFiniteSet(Taken) /\ DequeuedExact

(* A step that leaves the sources alone. *)
LEMMA QuietHeld ==
    ASSUME SenderTypes, SenderTypes', Held, SourcesUntouched
    PROVE  Held'
<1>1. Taken' = Taken
  BY DEF SourcesUntouched, Taken
<1>2. ASSUME NEW x \in Taken
      PROVE  SourceAt(x)' = SourceAt(x)
  <2>1. x[1] \in Ports
    BY TakenIs DEF TakenForm
  <2>2. QED
    BY <2>1 DEF SourcesUntouched, SourceAt
<1>3. QED
  BY <1>1, <1>2 DEF Held, OwnedOnce, DequeuedExact, SourcesUntouched

(* A step that gives up the sources of some places and puts them, with
   another offset perhaps, into the queue. *)
LEMMA GivesUp ==
    ASSUME SenderTypes, Held, NEW G \in SUBSET Taken, NEW r,
           Taken' = Taken \ G,
           \A x \in Taken \ G : SourceAt(x)' = SourceAt(x),
           \A x \in G : r[x].blk = SourceAt(x).blk,
           queue' = queue \cup {r[x] : x \in G},
           dequeued' = dequeued - Cardinality(G)
    PROVE  Held'
<1>1. IsFiniteSet(Taken') /\ Cardinality(Taken') = Cardinality(Taken) - Cardinality(G)
  <2>1. IsFiniteSet(Taken) /\ IsFiniteSet(G) /\ Taken \cap G = G
    BY FS_Subset DEF Held
  <2>2. Cardinality(Taken \ G) = Cardinality(Taken) - Cardinality(Taken \cap G)
        /\ IsFiniteSet(Taken \ G)
    BY Zenon, <2>1, FS_Difference
  <2>3. QED
    BY Zenon, <2>1, <2>2
<1>2. DequeuedExact'
  BY <1>1 DEF Held, DequeuedExact
<1>3. ASSUME NEW s \in queue', NEW t \in queue', s.blk = t.blk
      PROVE  s = t
  BY <1>3 DEF Held, OwnedOnce
<1>4. ASSUME NEW x \in Taken', NEW y \in Taken', SourceAt(x)'.blk = SourceAt(y)'.blk
      PROVE  x = y
  BY <1>4 DEF Held, OwnedOnce
<1>5. ASSUME NEW s \in queue', NEW x \in Taken'
      PROVE  s.blk # SourceAt(x)'.blk
  BY <1>5 DEF Held, OwnedOnce
<1>6. QED
  BY <1>1, <1>2, <1>3, <1>4, <1>5 DEF Held, OwnedOnce

(* getNextSource moves a source from the queue to a place that was free. *)
LEMMA TakesHeld ==
    ASSUME SenderTypes, SenderTypes', Held, NEW p \in Ports, TakesSource(p)
    PROVE  Held'
<1>1. PICK s \in queue : queue' = queue \ {s} /\ cur' = [cur EXCEPT ![p] = s]
  BY Zenon DEF TakesSource
<1> DEFINE x0 == <<p, 0>>
<1>2. /\ hist' = hist /\ cur[p] = NoSource /\ cur'[p] = s /\ s \in Source /\ s # NoSource
      /\ \A q \in Ports \ {p} : cur'[q] = cur[q]
  BY <1>1, NoSourceIsNone DEF TakesSource, SenderTypes
<1>3. x0 \notin Taken
  <2>1. ~Holds(x0)
    BY <1>2 DEF Holds
  <2>2. QED
    BY <2>1, TakenIs DEF TakenForm
<1>4. \A x \in Ports \X Nat : Holds(x)' <=> x = x0 \/ Holds(x)
  <2> SUFFICES ASSUME NEW q \in Ports, NEW i \in Nat
               PROVE  Holds(<<q, i>>)' <=> <<q, i>> = x0 \/ Holds(<<q, i>>)
    OBVIOUS
  <2>1. CASE q = p /\ i = 0
    BY <1>2, <2>1 DEF Holds
  <2>2. CASE q # p \/ i # 0
    BY <1>2, <2>2 DEF Holds
  <2>3. QED
    BY <2>1, <2>2
<1>5. Taken' = Taken \cup {x0}
  BY <1>4, TakenIs, TakenIsAfter DEF TakenForm
<1>6. ASSUME NEW x \in Taken
      PROVE  SourceAt(x)' = SourceAt(x)
  <2>1. x \in Ports \X Nat /\ x # x0
    BY <1>3, TakenIs DEF TakenForm
  <2>2. PICK q \in Ports, i \in Nat : x = <<q, i>> /\ (q # p \/ i # 0)
    BY <2>1
  <2>3. QED
    BY <1>2, <2>2 DEF SourceAt
<1>7. SourceAt(x0)' = s
  BY <1>2 DEF SourceAt
<1>8. IsFiniteSet(Taken') /\ Cardinality(Taken') = Cardinality(Taken) + 1
  BY Zenon, <1>3, <1>5, FS_AddElement DEF Held
<1>9. DequeuedExact'
  BY <1>8 DEF Held, DequeuedExact, TakesSource
<1> HIDE DEF x0
<1>10. ASSUME NEW x \in Taken', NEW y \in Taken', SourceAt(x)'.blk = SourceAt(y)'.blk
       PROVE  x = y
  BY <1>5, <1>6, <1>7, <1>10 DEF Held, OwnedOnce
<1>11. ASSUME NEW t \in queue', NEW x \in Taken'
       PROVE  t.blk # SourceAt(x)'.blk
  BY <1>1, <1>5, <1>6, <1>7 DEF Held, OwnedOnce
<1>12. ASSUME NEW t \in queue', NEW u \in queue', t.blk = u.blk
       PROVE  t = u
  BY <1>1, <1>12 DEF Held, OwnedOnce
<1>13. QED
  BY <1>8, <1>9, <1>10, <1>11, <1>12 DEF Held, OwnedOnce

(* addSource moves a source from one place of thread p to another, or from its
   place to the queue. *)
LEMMA AddsHeld ==
    ASSUME SenderTypes, SenderTypes', Held, NEW p \in Ports, AddsSource(p)
    PROVE  Held'
<1> DEFINE x0 == <<p, 0>>
           s == cur[p]
           h == hist[p]
<1>1. /\ s \in Source /\ h \in History /\ Len(h.src) \in Nat /\ h.src \in Seq(Source)
      /\ cur'[p] = NoSource /\ s # NoSource
      /\ \A q \in Ports \ {p} : cur'[q] = cur[q] /\ hist'[q].src = hist[q].src
  BY LengthType, NoSourceIsNone DEF AddsSource, SenderTypes
<1>2. x0 \in Taken /\ SourceAt(x0) = s
  <2>1. Holds(x0) /\ x0 \in Ports \X Nat
    BY <1>1 DEF Holds
  <2>2. QED
    BY <2>1, TakenIs DEF TakenForm, SourceAt
<1>3. CASE h.global
  <2>1. /\ hist'[p].src = h.src
        /\ queue' = queue \cup {MarkSourceAsFailed(s, h.last)}
        /\ dequeued' = dequeued - 1
    BY <1>1, <1>3 DEF AddsSource, AddSource, SourceToReturn, History
  <2>2. MarkSourceAsFailed(s, h.last).blk = s.blk
    BY <1>1, HistoryType, MarkSourceAsFailedType
  <2>3. \A x \in Ports \X Nat : Holds(x)' <=> x # x0 /\ Holds(x)
    <3> SUFFICES ASSUME NEW q \in Ports, NEW i \in Nat
                 PROVE  Holds(<<q, i>>)' <=> <<q, i>> # x0 /\ Holds(<<q, i>>)
      OBVIOUS
    <3>1. CASE q = p /\ i = 0
      BY <1>1, <3>1 DEF Holds
    <3>2. CASE q # p \/ i # 0
      BY <1>1, <2>1, <3>2 DEF Holds
    <3>3. QED
      BY <3>1, <3>2
  <2>4. Taken' = Taken \ {x0}
    BY <2>3, TakenIs, TakenIsAfter DEF TakenForm
  <2>5. ASSUME NEW x \in Taken \ {x0}
        PROVE  SourceAt(x)' = SourceAt(x)
    <3>1. x \in Ports \X Nat /\ x # x0
      BY TakenIs DEF TakenForm
    <3>2. PICK q \in Ports, i \in Nat : x = <<q, i>> /\ (q # p \/ i # 0)
      BY <3>1
    <3>3. QED
      BY <1>1, <2>1, <3>2 DEF SourceAt
  <2> DEFINE r == [x \in {x0} |-> MarkSourceAsFailed(s, h.last)]
  <2>6. /\ \A x \in {x0} : r[x].blk = SourceAt(x).blk
        /\ {r[x] : x \in {x0}} = {MarkSourceAsFailed(s, h.last)}
    BY <1>2, <2>2
  <2>7. Cardinality({x0}) = 1 /\ {x0} \in SUBSET Taken
    BY Zenon, <1>2, FS_Singleton
  <2> HIDE DEF r, x0, s, h
  <2>8. /\ queue' = queue \cup {r[x] : x \in {x0}}
        /\ dequeued' = dequeued - Cardinality({x0})
    BY <2>1, <2>6, <2>7
  <2>9. QED
    BY <2>4, <2>5, <2>6, <2>7, <2>8, GivesUp
<1>4. CASE ~h.global
  <2>0. PICK n \in Nat : n = Len(h.src) + 1
    BY <1>1
  <2> DEFINE x1 == <<p, n>>
  <2>1. /\ hist'[p].src = Append(h.src, s) /\ queue' = queue /\ dequeued' = dequeued
    BY <1>1, <1>4 DEF AddsSource, AddSource, SourceToReturn, History
  <2>2. /\ Len(hist'[p].src) = n /\ hist'[p].src[n] = s /\ n \in Nat /\ n # 0
        /\ \A i \in 1..Len(h.src) : hist'[p].src[i] = h.src[i]
    BY <1>1, <2>0, <2>1
  <2>3. \A x \in Ports \X Nat : Holds(x)' <=> x = x1 \/ (x # x0 /\ Holds(x))
    <3> SUFFICES ASSUME NEW q \in Ports, NEW i \in Nat
                 PROVE  Holds(<<q, i>>)' <=> <<q, i>> = x1 \/ (<<q, i>> # x0 /\ Holds(<<q, i>>))
      OBVIOUS
    <3>1. CASE q = p /\ i = 0
      BY <1>1, <2>0, <2>2, <3>1 DEF Holds
    <3>2. CASE q = p /\ i # 0
      BY <1>1, <2>0, <2>2, <3>2 DEF Holds
    <3>3. CASE q # p
      BY <1>1, <3>3 DEF Holds
    <3>4. QED
      BY <3>1, <3>2, <3>3
  <2>4. x1 \notin Taken /\ x1 # x0 /\ x1 \in Ports \X Nat
    <3>1. ~Holds(x1)
      BY <1>1, <2>0, <2>2 DEF Holds
    <3>2. QED
      BY <2>2, <3>1, TakenIs DEF TakenForm
  <2>5. Taken' = (Taken \ {x0}) \cup {x1}
    BY <2>3, <2>4, TakenIs, TakenIsAfter DEF TakenForm
  <2>6. ASSUME NEW x \in Taken \ {x0}
        PROVE  SourceAt(x)' = SourceAt(x)
    <3>1. x \in Ports \X Nat /\ x # x0 /\ Holds(x)
      BY TakenIs DEF TakenForm
    <3>2. PICK q \in Ports, i \in Nat : x = <<q, i>> /\ (q # p \/ i # 0)
      BY <3>1
    <3>3. CASE q # p
      BY <1>1, <3>2, <3>3 DEF SourceAt
    <3>4. CASE q = p
      <4>1. i # 0 /\ i \in 1..Len(h.src)
        BY <1>1, <3>1, <3>2, <3>4 DEF Holds
      <4>2. QED
        BY <2>2, <3>2, <3>4, <4>1 DEF SourceAt
    <3>5. QED
      BY <3>3, <3>4
  <2>7. SourceAt(x1)' = s
    BY <2>2 DEF SourceAt
  <2>8. IsFiniteSet(Taken') /\ Cardinality(Taken') = Cardinality(Taken)
    <3>1. /\ IsFiniteSet(Taken) /\ IsFiniteSet(Taken \ {x0})
          /\ Cardinality(Taken \ {x0}) = Cardinality(Taken) - 1
      BY <1>2, FS_RemoveElement DEF Held
    <3>2. x1 \notin Taken \ {x0}
      BY <2>4
    <3>3. Cardinality(Taken) \in Nat
      BY <3>1, FS_CardinalityType
    <3>4. /\ IsFiniteSet((Taken \ {x0}) \cup {x1})
          /\ Cardinality((Taken \ {x0}) \cup {x1}) = Cardinality(Taken \ {x0}) + 1
      BY Zenon, <3>1, <3>2, FS_AddElement
    <3>5. QED
      BY <2>5, <3>1, <3>3, <3>4
  <2>9. DequeuedExact'
    BY <2>1, <2>8 DEF Held, DequeuedExact
  <2> HIDE DEF x0, x1, s, h
  <2>10. ASSUME NEW x \in Taken', NEW y \in Taken', SourceAt(x)'.blk = SourceAt(y)'.blk
         PROVE  x = y
    BY <1>2, <2>5, <2>6, <2>7, <2>10 DEF Held, OwnedOnce
  <2>11. ASSUME NEW t \in queue', NEW x \in Taken'
         PROVE  t.blk # SourceAt(x)'.blk
    BY <1>2, <2>1, <2>5, <2>6, <2>7 DEF Held, OwnedOnce
  <2>12. QED
    BY <2>1, <2>8, <2>9, <2>10, <2>11 DEF Held, OwnedOnce
<1>5. QED
  BY <1>3, <1>4

(* The places of the sources that go when every history keeps its first n[p]. *)
Dropped(n) == {x \in Ports \X Nat : x[2] > n[x[1]] /\ x[2] <= Len(hist[x[1]].src)}

(* They held the sources of the histories. *)
LEMMA DroppedTaken ==
    ASSUME SenderTypes, NEW n \in [Ports -> Nat], NEW x \in Dropped(n)
    PROVE  x \in Taken /\ SourceAt(x) = hist[x[1]].src[x[2]]
<1>1. PICK q \in Ports, i \in Nat : x = <<q, i>>
  BY DEF Dropped
<1>2. i # 0 /\ i <= Len(hist[q].src)
  <2>1. n[q] \in Nat /\ i > n[q] /\ i <= Len(hist[q].src)
    BY <1>1 DEF Dropped
  <2>2. QED
    BY <2>1
<1>3. QED
  BY <1>1, <1>2, TakenIs DEF TakenForm, Holds, SourceAt

(* A prefix of a sequence. *)
LEMMA PrefixFacts ==
    ASSUME NEW S, NEW s \in Seq(S), NEW n \in Nat, n <= Len(s)
    PROVE  /\ Len(SubSeq(s, 1, n)) = n
           /\ \A i \in 1..n : SubSeq(s, 1, n)[i] = s[i]
           /\ SubSeq(s, 1, Len(s)) = s
OBVIOUS

(* The histories are cut and what they lose goes to the queue. *)
LEMMA CutHeld ==
    ASSUME SenderTypes, SenderTypes', Held, cur' = cur,
           NEW n \in [Ports -> Nat], NEW r,
           \A p \in Ports : /\ n[p] <= Len(hist[p].src)
                            /\ hist'[p].src = SubSeq(hist[p].src, 1, n[p]),
           \A x \in Dropped(n) : r[x].blk = hist[x[1]].src[x[2]].blk,
           queue' = queue \cup {r[x] : x \in Dropped(n)},
           dequeued' = dequeued - Cardinality(Dropped(n))
    PROVE  Held'
<1>1. \A p \in Ports : /\ Len(hist'[p].src) = n[p]
                       /\ \A i \in 1..n[p] : hist'[p].src[i] = hist[p].src[i]
  <2> SUFFICES ASSUME NEW p \in Ports
               PROVE  /\ Len(hist'[p].src) = n[p]
                      /\ \A i \in 1..n[p] : hist'[p].src[i] = hist[p].src[i]
    BY Zenon
  <2>1. PICK s \in Seq(Source), k \in Nat : s = hist[p].src /\ k = n[p]
    BY Zenon, LengthType
  <2>2. k <= Len(s) /\ hist'[p].src = SubSeq(s, 1, k)
    BY Zenon, <2>1
  <2>3. Len(SubSeq(s, 1, k)) = k /\ \A i \in 1..k : SubSeq(s, 1, k)[i] = s[i]
    BY <2>2, PrefixFacts
  <2>4. QED
    BY Zenon, <2>1, <2>2, <2>3
<1>2. \A x \in Ports \X Nat : Holds(x)' <=> Holds(x) /\ x \notin Dropped(n)
  <2> SUFFICES ASSUME NEW q \in Ports, NEW i \in Nat
               PROVE  Holds(<<q, i>>)' <=> Holds(<<q, i>>) /\ <<q, i>> \notin Dropped(n)
    OBVIOUS
  <2>1. n[q] \in Nat /\ Len(hist[q].src) \in Nat /\ n[q] <= Len(hist[q].src)
    BY LengthType
  <2>2. <<q, i>> \in Dropped(n) <=> i > n[q] /\ i <= Len(hist[q].src)
    BY DEF Dropped
  <2>3. CASE i = 0
    BY <2>1, <2>2, <2>3 DEF Holds
  <2>4. CASE i # 0
    BY <1>1, <2>1, <2>2, <2>4 DEF Holds
  <2>5. QED
    BY <2>3, <2>4
<1>3. Taken' = Taken \ Dropped(n)
  BY <1>2, TakenIs, TakenIsAfter DEF TakenForm
<1>4. \A x \in Dropped(n) : x \in Taken /\ SourceAt(x) = hist[x[1]].src[x[2]]
  BY DroppedTaken
<1>5. ASSUME NEW x \in Taken \ Dropped(n)
      PROVE  SourceAt(x)' = SourceAt(x)
  <2>1. x \in Ports \X Nat /\ Holds(x)
    BY TakenIs DEF TakenForm
  <2>2. PICK q \in Ports, i \in Nat : x = <<q, i>>
    BY <2>1
  <2>3. CASE i = 0
    BY <2>2, <2>3 DEF SourceAt
  <2>4. CASE i # 0
    <3>1. i <= Len(hist[q].src) /\ ~(i > n[q]) /\ n[q] \in Nat
      BY <2>1, <2>2, <2>4 DEF Holds, Dropped
    <3>2. i \in 1..n[q]
      BY <2>4, <3>1
    <3>3. QED
      BY <1>1, <2>2, <2>4, <3>2 DEF SourceAt
  <2>5. QED
    BY <2>3, <2>4
<1>6. PICK G \in SUBSET Taken : G = Dropped(n)
  BY <1>4
<1>7. /\ Taken' = Taken \ G
      /\ \A x \in Taken \ G : SourceAt(x)' = SourceAt(x)
      /\ \A x \in G : r[x].blk = SourceAt(x).blk
  BY Zenon, <1>3, <1>4, <1>5, <1>6
<1>8. queue' = queue \cup {r[x] : x \in G} /\ dequeued' = dequeued - Cardinality(G)
  BY Zenon, <1>6
<1>9. QED
  BY <1>7, <1>8, GivesUp

(* What setCheckpointAndReturnToQueue makes of the i-th source of a history. *)
Marked(h, ck, i) ==
    MarkSourceAsFailed(h.src[i], IF i = ck.numBlocks + 1 THEN ck ELSE NoCheckpoint)

(* How many sources the history of p keeps when those of Q get checkpoints. *)
Kept(Q, ck) == [p \in Ports |-> IF p \in Q THEN ck[p].numBlocks ELSE Len(hist[p].src)]

(* r tells which source of the queue a source dropped from a history became. *)
ReturnedBy(r, Q, ck, g) ==
    /\ r = [x \in Dropped(Kept(Q, ck)) |-> r[x]]
    /\ \A x \in Dropped(Kept(Q, ck)) : r[x].blk = hist[x[1]].src[x[2]].blk
    /\ {r[x] : x \in Dropped(Kept(Q, ck))}
         = UNION {SourcesToReturn(hist[p], ck[p], g) : p \in Q}

(* What valid checkpoints for some threads drop from the histories is what
   they return to the queue, block by block. *)
LEMMA CheckpointsReturn ==
    ASSUME SenderTypes,
           NEW Q \in SUBSET Ports, NEW ck \in [Ports -> Checkpoint], NEW g \in BOOLEAN,
           \A p \in Q : SetCheckpointCode(hist[p], ck[p], g) # "INVALID_CHECKPOINT"
    PROVE  /\ Kept(Q, ck) \in [Ports -> Nat]
           /\ \A p \in Ports : Kept(Q, ck)[p] <= Len(hist[p].src)
           /\ \E r : ReturnedBy(r, Q, ck, g)
<1> DEFINE r == [x \in Dropped(Kept(Q, ck)) |-> Marked(hist[x[1]], ck[x[1]], x[2])]
<1>1. ASSUME NEW p \in Q
      PROVE  /\ ck[p] \in Checkpoint /\ ck[p].numBlocks \in Nat
             /\ hist[p] \in History /\ hist[p].src \in Seq(Source) /\ Len(hist[p].src) \in Nat
             /\ ck[p].numBlocks <= Len(hist[p].src)
             /\ SourcesToReturn(hist[p], ck[p], g)
                  = {Marked(hist[p], ck[p], i) : i \in ck[p].numBlocks + 1 .. Len(hist[p].src)}
  <2>1. /\ ck[p] \in Checkpoint /\ ck[p].numBlocks \in Nat
        /\ hist[p] \in History /\ hist[p].src \in Seq(Source) /\ Len(hist[p].src) \in Nat
    BY LengthType, CheckpointType
  <2>2. ck[p].numBlocks <= Len(hist[p].src)
    BY <2>1 DEF SetCheckpointCode
  <2>3. SourcesToReturn(hist[p], ck[p], g)
          = {Marked(hist[p], ck[p], i) : i \in ck[p].numBlocks + 1 .. Len(hist[p].src)}
    BY DEF SourcesToReturn, Marked
  <2>4. QED
    BY <2>1, <2>2, <2>3
<1>2. Kept(Q, ck) \in [Ports -> Nat]
  BY <1>1, LengthType DEF Kept
<1>3. \A p \in Ports : Kept(Q, ck)[p] <= Len(hist[p].src)
  BY <1>1, LengthType DEF Kept
<1>4. ASSUME NEW x \in Dropped(Kept(Q, ck))
      PROVE  /\ x[1] \in Q /\ x = <<x[1], x[2]>>
             /\ x[2] \in ck[x[1]].numBlocks + 1 .. Len(hist[x[1]].src)
  <2>1. PICK p \in Ports, i \in Nat : x = <<p, i>>
    BY DEF Dropped
  <2>2. i > Kept(Q, ck)[p] /\ i <= Len(hist[p].src) /\ Len(hist[p].src) \in Nat
    BY <2>1, LengthType DEF Dropped
  <2>3. p \in Q /\ Kept(Q, ck)[p] = ck[p].numBlocks
    BY <2>2 DEF Kept
  <2>4. QED
    BY <1>1, <2>1, <2>2, <2>3
<1>5. ASSUME NEW p \in Q, NEW i \in ck[p].numBlocks + 1 .. Len(hist[p].src)
      PROVE  <<p, i>> \in Dropped(Kept(Q, ck))
  BY <1>1 DEF Dropped, Kept
<1>6. \A p \in Q : \A i \in ck[p].numBlocks + 1 .. Len(hist[p].src) :
          Marked(hist[p], ck[p], i).blk = hist[p].src[i].blk
  <2> SUFFICES ASSUME NEW p \in Q, NEW i \in ck[p].numBlocks + 1 .. Len(hist[p].src)
               PROVE  Marked(hist[p], ck[p], i).blk = hist[p].src[i].blk
    BY Zenon
  <2>1. PICK s \in Seq(Source), k \in Nat : s = hist[p].src /\ k = ck[p].numBlocks
    BY Zenon, <1>1
  <2>2. k + 1 .. Len(s) \subseteq 1 .. Len(s)
    OBVIOUS
  <2>3. s[i] \in Source
    BY <2>1, <2>2
  <2>4. QED
    BY Zenon, <1>1, <2>1, <2>3, MarkSourceAsFailedType DEF Marked
<1>7. {r[x] : x \in Dropped(Kept(Q, ck))}
        = UNION {SourcesToReturn(hist[p], ck[p], g) : p \in Q}
  <2>1. ASSUME NEW x \in Dropped(Kept(Q, ck))
        PROVE  r[x] \in SourcesToReturn(hist[x[1]], ck[x[1]], g) /\ x[1] \in Q
    <3>0. PICK p \in Q : \E i \in ck[p].numBlocks + 1 .. Len(hist[p].src) : x = <<p, i>>
      BY <1>4
    <3>1. PICK i \in ck[p].numBlocks + 1 .. Len(hist[p].src) : x = <<p, i>>
      BY <3>0
    <3>2. r[x] = Marked(hist[p], ck[p], i)
      BY <3>1
    <3>3. QED
      BY <1>1, <3>1, <3>2
  <2>2. ASSUME NEW p \in Q, NEW s \in SourcesToReturn(hist[p], ck[p], g)
        PROVE  \E x \in Dropped(Kept(Q, ck)) : r[x] = s
    <3>1. PICK i \in ck[p].numBlocks + 1 .. Len(hist[p].src) : s = Marked(hist[p], ck[p], i)
      BY Zenon, <1>1
    <3>2. <<p, i>> \in Dropped(Kept(Q, ck)) /\ r[<<p, i>>] = s
      BY <1>5, <3>1
    <3>3. QED
      BY <3>2
  <2> HIDE DEF r
  <2>3. \A s : (\E x \in Dropped(Kept(Q, ck)) : s = r[x])
                  <=> (\E p \in Q : s \in SourcesToReturn(hist[p], ck[p], g))
    BY Zenon, <2>1, <2>2
  <2>4. QED
    BY Zenon, <2>3
<1>8. \A x \in Dropped(Kept(Q, ck)) : r[x].blk = hist[x[1]].src[x[2]].blk
  BY <1>4, <1>6
<1>9. r = [x \in Dropped(Kept(Q, ck)) |-> r[x]]
  OBVIOUS
<1> HIDE DEF r
<1>10. ReturnedBy(r, Q, ck, g)
  BY Zenon, <1>7, <1>8, <1>9 DEF ReturnedBy
<1>11. QED
  BY <1>2, <1>3, <1>10

(* Valid checkpoints are set for the histories of some threads. *)
LEMMA CheckpointsHeld ==
    ASSUME SenderTypes, SenderTypes', Held, cur' = cur,
           NEW Q \in SUBSET Ports, NEW ck \in [Ports -> Checkpoint], NEW g \in BOOLEAN,
           \A p \in Q : SetCheckpointCode(hist[p], ck[p], g) # "INVALID_CHECKPOINT",
           \A p \in Q : hist'[p] = SetCheckpoint(hist[p], ck[p], g),
           \A p \in Ports \ Q : hist'[p] = hist[p],
           queue' = queue \cup UNION {SourcesToReturn(hist[p], ck[p], g) : p \in Q},
           dequeued' = dequeued - Cardinality(Dropped(Kept(Q, ck)))
    PROVE  Held'
<1>1. ASSUME NEW p \in Ports
      PROVE  hist'[p].src = SubSeq(hist[p].src, 1, Kept(Q, ck)[p])
  <2>1. hist[p] \in History /\ hist[p].src \in Seq(Source) /\ Len(hist[p].src) \in Nat
    BY LengthType
  <2>2. CASE p \in Q
    <3>1. hist'[p].src = SubSeq(hist[p].src, 1, ck[p].numBlocks)
      BY Zenon, <2>1, <2>2 DEF SetCheckpoint, History
    <3>2. QED
      BY Zenon, <2>2, <3>1 DEF Kept
  <2>3. CASE p \notin Q
    <3>1. hist'[p] = hist[p] /\ Kept(Q, ck)[p] = Len(hist[p].src)
      BY <2>3 DEF Kept
    <3>2. hist[p].src = SubSeq(hist[p].src, 1, Len(hist[p].src))
      <4>1. Len(hist[p].src) <= Len(hist[p].src)
        BY <2>1
      <4>2. QED
        BY Zenon, <2>1, <4>1, PrefixFacts
    <3>3. QED
      BY <3>1, <3>2
  <2>4. QED
    BY <2>2, <2>3
<1>2. PICK n : n = Kept(Q, ck)
  OBVIOUS
<1>3. n \in [Ports -> Nat] /\ \A p \in Ports : n[p] <= Len(hist[p].src)
  BY <1>2, CheckpointsReturn
<1>4. PICK r : ReturnedBy(r, Q, ck, g)
  BY Zenon, CheckpointsReturn
<1>5. /\ \A x \in Dropped(n) : r[x].blk = hist[x[1]].src[x[2]].blk
      /\ queue' = queue \cup {r[x] : x \in Dropped(n)}
      /\ dequeued' = dequeued - Cardinality(Dropped(n))
  BY Zenon, <1>2, <1>4 DEF ReturnedBy
<1>6. \A p \in Ports : hist'[p].src = SubSeq(hist[p].src, 1, n[p])
  BY <1>1, <1>2
<1>7. QED
  BY Zenon, <1>3, <1>5, <1>6, CutHeld

(* A checkpoint read from the connection, or of an ERR command. *)
LEMMA CheckpointHeld ==
    ASSUME SenderTypes, SenderTypes', Held, NEW q \in Ports, NEW ck \in Checkpoint,
           NEW g \in BOOLEAN, SetsCheckpoint(q, ck, g)
    PROVE  Held'
<1> DEFINE cks == [p \in Ports |-> ck]
<1>1. PICK a \in Nat, b \in Nat : a = ck.numBlocks /\ b = Len(hist[q].src)
  BY LengthType, CheckpointType
<1>2. a <= b
  BY <1>1 DEF SetsCheckpoint, SetCheckpointCode
<1> DEFINE I == a + 1 .. b
           f == [i \in I |-> <<q, i>>]
           D == Dropped(Kept({q}, cks))
<1>3. \A x : x \in D <=> \E i \in I : x = <<q, i>>
  <2>1. ASSUME NEW x \in D
        PROVE  \E i \in I : x = <<q, i>>
    <3>1. PICK p \in Ports, i \in Nat : x = <<p, i>>
      BY DEF Dropped
    <3>2. i > Kept({q}, cks)[p] /\ i <= Len(hist[p].src) /\ Len(hist[p].src) \in Nat
      BY <3>1, LengthType DEF Dropped
    <3>3. p = q /\ Kept({q}, cks)[p] = a
      BY <1>1, <3>2 DEF Kept
    <3>4. QED
      BY <1>1, <3>1, <3>2, <3>3
  <2>2. ASSUME NEW i \in I
        PROVE  <<q, i>> \in D
    BY <1>1 DEF Dropped, Kept
  <2>3. QED
    BY <2>1, <2>2
<1>4. Cardinality(D) = b - a
  <2>1. a + 1 \in Int /\ b \in Int
    OBVIOUS
  <2>2. IsFiniteSet(I) /\ Cardinality(I) = IF a + 1 > b THEN 0 ELSE b - (a + 1) + 1
    BY <2>1, FS_Interval
  <2>3. Cardinality(I) = b - a
    BY <1>2, <2>2
  <2> HIDE DEF I, D
  <2>4. f \in Bijection(I, D)
    BY <1>3 DEF Bijection, Injection, Surjection, IsInjective
  <2>5. ExistsBijection(I, D)
    BY <2>4 DEF ExistsBijection
  <2>6. QED
    BY <2>2, <2>3, <2>5, FS_Bijection
<1>5. cks \in [Ports -> Checkpoint] /\ cks[q] = ck
  OBVIOUS
<1> HIDE DEF cks, D, f, I
<1>6. /\ cur' = cur
      /\ SetCheckpointCode(hist[q], cks[q], g) # "INVALID_CHECKPOINT"
      /\ hist'[q] = SetCheckpoint(hist[q], cks[q], g)
      /\ \A p \in Ports \ {q} : hist'[p] = hist[p]
      /\ queue' = queue \cup UNION {SourcesToReturn(hist[p], cks[p], g) : p \in {q}}
      /\ dequeued' = dequeued - Cardinality(D)
  <2>1. cur' = cur /\ SetCheckpointCode(hist[q], cks[q], g) # "INVALID_CHECKPOINT"
    BY <1>5 DEF SetsCheckpoint
  <2>2. hist' = [hist EXCEPT ![q] = SetCheckpoint(hist[q], cks[q], g)]
    BY <1>5 DEF SetsCheckpoint
  <2>3. \A p \in Ports : hist'[p] = IF p = q THEN SetCheckpoint(hist[q], cks[q], g)
                                            ELSE hist[p]
    BY <2>2 DEF SenderTypes
  <2>4. queue' = queue \cup SourcesToReturn(hist[q], cks[q], g)
    BY <1>5 DEF SetsCheckpoint
  <2>5. UNION {SourcesToReturn(hist[p], cks[p], g) : p \in {q}}
            = SourcesToReturn(hist[q], cks[q], g)
    BY Zenon
  <2>6. dequeued' = dequeued - Cardinality(D)
    BY <1>1, <1>4 DEF SetsCheckpoint
  <2>7. QED
    BY <2>1, <2>3, <2>4, <2>5, <2>6
<1>7. PICK Q \in SUBSET Ports : Q = {q}
  BY Zenon
<1>8. QED
  BY <1>5, <1>6, <1>7, CheckpointsHeld DEF D

(* Sender::finish cuts every history that accepts the checkpoint made up of its
   acknowledged sources; the blocks returned are as many as the places. *)
LEMMA FinishHeld ==
    ASSUME SenderTypes, SenderTypes', Held, Finish
    PROVE  Held'
<1>1. CASE AllSourcesAcked
  <2>1. \A q \in Ports : hist'[q].src = hist[q].src /\ hist'[q].last = hist[q].last
    <3>1. hist' = [p \in Ports |-> MarkAllAcknowledged(hist[p])]
      BY Zenon, <1>1 DEF Finish
    <3>2. \A q \in Ports : hist'[q] = MarkAllAcknowledged(hist[q])
      BY Zenon, <3>1
    <3>3. \A q \in Ports : hist[q] \in History
      BY DEF SenderTypes
    <3>4. QED
      BY Zenon, <3>2, <3>3, HistoryUpdateType
  <2>2. QED
    BY <1>1, <2>1, QuietHeld DEF Finish, SourcesUntouched
<1>2. CASE ~AllSourcesAcked
  <2> DEFINE unacked == UNION {UnackedSources(hist[p], p) : p \in Ports}
  <2>1. PICK ck : ck = [p \in Ports |-> UnackedCheckpoint(hist[p], p)]
    BY Zenon
  <2>2. ck \in [Ports -> Checkpoint]
    BY <2>1, UnackedCheckpointType DEF SenderTypes
  <2>3. PICK Q \in SUBSET Ports :
            \A p \in Ports :
                p \in Q <=> SetCheckpointCode(hist[p], ck[p], FALSE) # "INVALID_CHECKPOINT"
    <3>1. {p \in Ports : SetCheckpointCode(hist[p], ck[p], FALSE) # "INVALID_CHECKPOINT"}
            \in SUBSET Ports
      BY Zenon
    <3>2. QED
      BY Zenon, <3>1
  <2>4. /\ \A p \in Q : hist'[p] = SetCheckpoint(hist[p], ck[p], FALSE)
        /\ \A p \in Ports \ Q : hist'[p] = hist[p]
        /\ cur' = cur
    BY Zenon, <1>2, <2>1, <2>3 DEF Finish, ReturnUnackedSources, SetCheckpoint
  <2>5. unacked = UNION {SourcesToReturn(hist[p], ck[p], FALSE) : p \in Q}
    <3>1. \A p \in Ports : UnackedSources(hist[p], p) = SourcesToReturn(hist[p], ck[p], FALSE)
      BY <2>1 DEF UnackedSources
    <3>2. \A p \in Ports \ Q : SourcesToReturn(hist[p], ck[p], FALSE) = {}
      BY Zenon, <2>3 DEF SourcesToReturn
    <3>3. QED
      BY Zenon, <3>1, <3>2
  <2>6. queue' = queue \cup unacked /\ dequeued' = dequeued - Cardinality(unacked)
    BY <1>2 DEF Finish, ReturnToQueue
  <2> HIDE DEF unacked
  <2> DEFINE D == Dropped(Kept(Q, ck))
  <2>7. PICK g \in BOOLEAN : g = FALSE
    BY Zenon
  <2>8. Kept(Q, ck) \in [Ports -> Nat] /\ \E r : ReturnedBy(r, Q, ck, g)
    BY Zenon, <2>2, <2>3, <2>7, CheckpointsReturn
  <2>9. PICK r : ReturnedBy(r, Q, ck, g)
    BY <2>8
  <2>a. \A x \in D : r[x].blk = hist[x[1]].src[x[2]].blk
    BY <2>9 DEF ReturnedBy
  <2>b. {r[x] : x \in D} = UNION {SourcesToReturn(hist[p], ck[p], g) : p \in Q}
    BY <2>9, Zenon DEF ReturnedBy
  <2>c. {r[x] : x \in D} = unacked
    BY <2>5, <2>7, <2>b, Zenon
  <2>d. r = [x \in D |-> r[x]]
    BY <2>9, Zenon DEF ReturnedBy
  <2>11. \A x \in D : x \in Taken /\ SourceAt(x) = hist[x[1]].src[x[2]]
    BY <2>8, DroppedTaken
  <2>12. \A x, y \in D : r[x] = r[y] => x = y
    <3> HIDE DEF D
    <3>1. \A x, y \in Taken : SourceAt(x).blk = SourceAt(y).blk => x = y
      BY DEF Held, OwnedOnce
    <3>2. ASSUME NEW x \in D, NEW y \in D, r[x] = r[y]
          PROVE  x = y
      <4>1. SourceAt(x).blk = r[x].blk /\ SourceAt(y).blk = r[y].blk
        BY <2>11, <2>a, Zenon
      <4>2. SourceAt(x).blk = SourceAt(y).blk
        BY <3>2, <4>1, Zenon
      <4>3. QED
        BY <2>11, <3>1, <4>2, Zenon
    <3>3. QED
      BY <3>2
  <2>13. Cardinality(unacked) = Cardinality(D)
    <3>1. IsFiniteSet(D)
      BY <2>11, FS_Subset DEF Held
    <3> HIDE DEF D
    <3>2. r \in Bijection(D, unacked)
      BY <2>12, <2>c, <2>d DEF Bijection, Injection, Surjection, IsInjective
    <3>3. ExistsBijection(D, unacked)
      BY <3>2 DEF ExistsBijection
    <3>4. QED
      BY <3>1, <3>3, FS_Bijection
  <2>14. QED
    BY Zenon, <2>2, <2>3, <2>4, <2>5, <2>6, <2>7, <2>13, CheckpointsHeld
<1>3. QED
  BY <1>1, <1>2

(* The inductive invariant: the sources held are distinct, finitely many and
   counted. *)
HoldingInv == TypeInv /\ Held

(* Before the first step no source is held, and every block is in the queue
   once. *)
LEMMA InitHeld == Init => Held
<1> SUFFICES ASSUME Init PROVE Held
  OBVIOUS
<1>1. Taken = {}
  <2>1. \A p \in Ports : cur[p] = NoSource /\ hist[p].src = <<>>
    BY DEF Init, SenderInit, NewHistory
  <2>2. \A p \in Ports : 1 .. Len(hist[p].src) = {}
    BY <2>1
  <2>3. QED
    BY <2>1, <2>2 DEF Taken
<1>2. queue = [blk : Blocks, off : {0}] /\ dequeued = 0
  BY DEF Init, SenderInit
<1>3. \A s, t \in queue : s.blk = t.blk => s = t
  BY <1>2
<1>4. IsFiniteSet({}) /\ Cardinality({}) = 0
  BY FS_EmptySet
<1>5. QED
  BY <1>1, <1>2, <1>3, <1>4 DEF Held, OwnedOnce, DequeuedExact

(* Every step of the transfer keeps the sources distinct and counted. *)
LEMMA NextHeld == HoldingInv /\ TypeInv' /\ [Next]_vars => Held'
<1> SUFFICES ASSUME TypeInv, TypeInv', Held, [Next]_vars PROVE Held'
  BY DEF HoldingInv
<1>1. NetTypeOK /\ SenderTypes /\ SenderInv /\ SenderTypes'
  BY DEF TypeInv
<1>2. ASSUME NEW p \in Ports, SenderStep(p)
      PROVE  Held'
  BY <1>1, <1>2, SenderStepKinds, QuietHeld, TakesHeld, AddsHeld, CheckpointHeld
<1>3. CASE UNCHANGED senderVars
  BY <1>1, <1>3, QuietHeld DEF senderVars, SourcesUntouched
<1>4. CASE Finish
  BY <1>1, <1>4, FinishHeld
<1>5. QED
  BY <1>2, <1>3, <1>4 DEF Next, vars

(* HoldingInv holds in every state. *)
THEOREM HoldingInvariant == Spec => []HoldingInv
<1>1. Init => HoldingInv
  BY InitHeld, InitTypeInv DEF HoldingInv
<1>2. HoldingInv /\ [Next]_vars => HoldingInv'
  BY NextTypeInv, NextHeld DEF HoldingInv
<1>3. QED
  BY <1>1, <1>2, PTL DEF Spec

(* No block is owned twice, for any number of ports, blocks, connections and
   failures: a source that addSource, a checkpoint or Sender::finish returns to
   the queue is not kept by a thread or a history as well. *)
THEOREM NoBlockTwice == Spec => []OwnedOnce
<1>1. HoldingInv => OwnedOnce
  BY DEF HoldingInv, Held
<1>2. QED
  BY <1>1, HoldingInvariant, PTL

(* numBlocksDequeued_ is exactly the number of sources the threads and their
   histories hold, so what returnToQueue subtracts from it is always there. *)
THEOREM DequeuedCount == Spec => []DequeuedExact
<1>1. HoldingInv => DequeuedExact
  BY DEF HoldingInv, Held
<1>2. QED
  BY <1>1, HoldingInvariant, PTL

(* The state variables always hold the values the code's types and the bounds
   allow, for any number of ports, blocks, connections and failures: offsets
   never run past the end of a block, whatever checkpoints are applied. *)
THEOREM TypeCorrect == Spec => []TypeOK
<1>1. ASSUME HoldingInv
      PROVE  TypeOK
  <2>1. dequeued \in Int
    BY <1>1, FS_CardinalityType DEF HoldingInv, Held, DequeuedExact
  <2>2. QED
    BY <1>1, <2>1 DEF HoldingInv, TypeInv, TypeOK, SenderTypes, SenderTypeOK
<1>2. QED
  BY <1>1, HoldingInvariant, PTL
=============================================================================

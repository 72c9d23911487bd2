--------------------------- MODULE DeliveryProofs ---------------------------
(***************************************************************************)
(* What a checkpoint says has arrived, for any number of ports, blocks,    *)
(* connections and failures, and for every kind of footer: the bytes that  *)
(* a source skips when it is sent again are bytes the receiver has.        *)
(***************************************************************************)
EXTENDS TransferProofs

(* The bytes v contain those that the checkpoint reports of its last block, *)
Tells(ck, v) == \A x \in ck.off .. (ck.off + ck.bytes - 1) : <<ck.blk, x>> \in v

TellsAll(cks, v) == \A i \in 1..Len(cks) : Tells(cks[i], v)

TellsStream(s, v) == \A k \in 1..Len(s) : TellsAll(s[k].cks, v)

(* and those that come before the offset of a source. *)
Skips(s, v) == \A n \in 0..(s.off - 1) : <<s.blk, n>> \in v

(* Wherever the sender keeps a source, it skips only bytes that have arrived, *)
SourcesSkip ==
    /\ \A s \in queue : Skips(s, valid)
    /\ \A p \in Ports : cur[p] # NoSource => Skips(cur[p], valid)
    /\ \A p \in Ports : \A i \in 1..Len(hist[p].src) : Skips(hist[p].src[i], valid)

(* and every checkpoint, in a history, read by a sender thread, on its way, or
   kept by the receiver, reports bytes that have arrived. *)
SenderTells ==
    \A p \in Ports :
        /\ hist[p].last # NoCheckpoint => Tells(hist[p].last, valid)
        /\ TellsAll(toApply[p], valid)

WireTells == \A p \in Ports : \A i \in Conns : TellsStream(toS[p][i], valid)

ReceiverTells ==
    /\ \A p \in Ports : Tells(rCheckpoint[p], valid) /\ TellsAll(newCks[p], valid)
    /\ TellsAll(checkpoints, valid)

Truthful == SourcesSkip /\ SenderTells /\ WireTells /\ ReceiverTells

-----------------------------------------------------------------------------
(* The sources *)

(* markSourceAsFailed advances a source by the bytes of a checkpoint about it. *)
LEMMA MarkSkips ==
    ASSUME NEW s \in Source, NEW ck \in Checkpoint \cup {NoCheckpoint}, NEW v,
           Skips(s, v), ck # NoCheckpoint => Tells(ck, v)
    PROVE  Skips(MarkSourceAsFailed(s, ck), v)
<1>1. CASE ck # NoCheckpoint /\ ck.blk = s.blk /\ ck.off = s.off
  <2>1. ck \in Checkpoint /\ s.off \in 0..BlockSize
    BY <1>1 DEF Source
  <2>2. ck.bytes \in 0..BlockSize
    BY <2>1, CheckpointType
  <2>3. /\ MarkSourceAsFailed(s, ck).blk = s.blk
        /\ MarkSourceAsFailed(s, ck).off = s.off + ck.bytes
    BY <1>1 DEF MarkSourceAsFailed, Source
  <2>4. ASSUME NEW n \in 0..(s.off + ck.bytes - 1)
        PROVE  <<s.blk, n>> \in v
    BY <1>1, <2>1, <2>2, BlockSizeAssumption DEF Skips, Tells
  <2>5. PICK t : t = MarkSourceAsFailed(s, ck) /\ t.blk = s.blk /\ t.off = s.off + ck.bytes
    BY <2>3
  <2>6. Skips(t, v)
    BY <2>1, <2>2, <2>4, <2>5, BlockSizeAssumption DEF Skips
  <2>7. QED
    BY <2>5, <2>6
<1>2. CASE ~(ck # NoCheckpoint /\ ck.blk = s.blk /\ ck.off = s.off)
  BY <1>2 DEF MarkSourceAsFailed
<1>3. QED
  BY <1>1, <1>2

(* A step that leaves the sources alone. *)
LEMMA QuietSkips ==
    ASSUME SourcesSkip, SourcesUntouched, valid \subseteq valid'
    PROVE  SourcesSkip'
BY DEF SourcesSkip, SourcesUntouched, Skips

(* getNextSource *)
LEMMA TakesSkips ==
    ASSUME SenderTypes, SourcesSkip, NEW p \in Ports, TakesSource(p), valid' = valid
    PROVE  SourcesSkip'
<1>1. PICK s \in queue : queue' = queue \ {s} /\ cur' = [cur EXCEPT ![p] = s]
  BY Zenon DEF TakesSource
<1>2. \A q \in Ports : cur'[q] = IF q = p THEN s ELSE cur[q]
  BY <1>1 DEF SenderTypes
<1>3. QED
  BY <1>1, <1>2 DEF SourcesSkip, TakesSource

(* addSource *)
LEMMA AddsSkips ==
    ASSUME SenderTypes, SourcesSkip, SenderTells, NEW p \in Ports, AddsSource(p), valid' = valid
    PROVE  SourcesSkip'
<1>1. hist[p] \in History /\ cur[p] \in Source /\ cur[p] # NoSource
  BY NoSourceIsNone DEF SenderTypes, AddsSource
<1>2. \A q \in Ports : cur'[q] = IF q = p THEN NoSource ELSE cur[q]
  BY DEF SenderTypes, AddsSource
<1>3. Skips(cur[p], valid)
  BY <1>1 DEF SourcesSkip
<1>4. Skips(MarkSourceAsFailed(cur[p], hist[p].last), valid)
  <2>1. hist[p].last \in Checkpoint \cup {NoCheckpoint}
    BY <1>1, HistoryType
  <2>2. PICK v : v = valid
    OBVIOUS
  <2>3. PICK ck \in Checkpoint \cup {NoCheckpoint} : ck = hist[p].last
    BY <2>1
  <2>4. QED
    BY <1>1, <1>3, <2>2, <2>3, MarkSkips DEF SenderTells
<1>5. \A s \in queue' : Skips(s, valid)
  BY <1>4 DEF AddsSource, SourceToReturn, SourcesSkip
<1>6. ASSUME NEW i \in 1..Len(hist'[p].src)
      PROVE  Skips(hist'[p].src[i], valid)
  <2>1. CASE hist[p].global
    <3>1. hist'[p].src = hist[p].src
      BY <1>1, <2>1 DEF AddsSource, AddSource, History
    <3>2. QED
      BY <3>1, <1>6 DEF SourcesSkip
  <2>2. CASE ~hist[p].global
    <3>1. hist'[p].src = Append(hist[p].src, cur[p]) /\ hist[p].src \in Seq(Source)
      BY <1>1, <2>2, HistoryType DEF AddsSource, AddSource, History
    <3>2. PICK t \in Seq(Source) : t = hist[p].src
      BY <3>1
    <3>3. i \in 1..Len(t) + 1 /\ Append(t, cur[p])[i] = IF i = Len(t) + 1 THEN cur[p] ELSE t[i]
      BY <1>1, <1>6, <3>1, <3>2
    <3>4. QED
      BY <1>3, <3>1, <3>2, <3>3 DEF SourcesSkip
  <2>3. QED
    BY <2>1, <2>2
<1>7. ASSUME NEW q \in Ports, NEW i \in 1..Len(hist'[q].src)
      PROVE  Skips(hist'[q].src[i], valid)
  BY <1>6, <1>7 DEF AddsSource, SourcesSkip
<1>8. QED
  BY <1>2, <1>5, <1>7 DEF SourcesSkip

(* setCheckpointAndReturnToQueue for one history. *)
LEMMA SetCheckpointSkips ==
    ASSUME NEW h \in History, NEW ck \in Checkpoint, NEW g \in BOOLEAN, NEW v, Tells(ck, v),
           \A i \in 1..Len(h.src) : Skips(h.src[i], v)
    PROVE  /\ \A i \in 1..Len(SetCheckpoint(h, ck, g).src) : Skips(SetCheckpoint(h, ck, g).src[i], v)
           /\ \A s \in SourcesToReturn(h, ck, g) : Skips(s, v)
<1>1. h.src \in Seq(Source) /\ ck.numBlocks \in Nat
  BY HistoryType, CheckpointType
<1>2. CASE SetCheckpointCode(h, ck, g) = "INVALID_CHECKPOINT"
  BY <1>2 DEF SetCheckpoint, SourcesToReturn
<1>3. CASE SetCheckpointCode(h, ck, g) # "INVALID_CHECKPOINT"
  <2>1. ck.numBlocks <= Len(h.src)
    BY <1>1, <1>3 DEF SetCheckpointCode
  <2>2. SetCheckpoint(h, ck, g).src = SubSeq(h.src, 1, ck.numBlocks)
    BY Zenon, <1>3 DEF SetCheckpoint, History
  <2>3. /\ Len(SubSeq(h.src, 1, ck.numBlocks)) = ck.numBlocks
        /\ \A i \in 1..ck.numBlocks : SubSeq(h.src, 1, ck.numBlocks)[i] = h.src[i]
    BY <1>1, <2>1
  <2>4. \A i \in 1..ck.numBlocks : i \in 1..Len(h.src)
    BY <1>1, <2>1
  <2>5. ASSUME NEW i \in ck.numBlocks + 1 .. Len(h.src)
        PROVE  Skips(MarkSourceAsFailed(h.src[i], IF i = ck.numBlocks + 1 THEN ck ELSE NoCheckpoint), v)
    <3>1. h.src[i] \in Source /\ Skips(h.src[i], v)
      BY <1>1
    <3>2. QED
      BY <3>1, MarkSkips
  <2>6. QED
    BY Zenon, <1>3, <2>2, <2>3, <2>4, <2>5 DEF SourcesToReturn
<1>4. QED
  BY <1>2, <1>3

(* A checkpoint that arrives. *)
LEMMA CheckpointSkips ==
    ASSUME SenderTypes, SourcesSkip, NEW q \in Ports, NEW ck \in Checkpoint, NEW g \in BOOLEAN,
           SetsCheckpoint(q, ck, g), Tells(ck, valid), valid' = valid
    PROVE  SourcesSkip'
<1>1. PICK h \in History, v \in {valid} : h = hist[q] /\ v = valid
  BY DEF SenderTypes
<1>2. /\ \A i \in 1..Len(SetCheckpoint(h, ck, g).src) : Skips(SetCheckpoint(h, ck, g).src[i], v)
      /\ \A s \in SourcesToReturn(h, ck, g) : Skips(s, v)
  <2>1. \A i \in 1..Len(h.src) : Skips(h.src[i], v)
    BY <1>1 DEF SourcesSkip
  <2>2. QED
    BY <1>1, <2>1, SetCheckpointSkips
<1>3. hist'[q] = SetCheckpoint(h, ck, g) /\ \A r \in Ports \ {q} : hist'[r] = hist[r]
  BY <1>1 DEF SetsCheckpoint, SenderTypes
<1>4. queue' = queue \cup SourcesToReturn(h, ck, g) /\ cur' = cur
  BY <1>1 DEF SetsCheckpoint
<1>5. \A s \in queue' : Skips(s, valid)
  BY <1>1, <1>2, <1>4 DEF SourcesSkip
<1>6. ASSUME NEW r \in Ports, NEW i \in 1..Len(hist'[r].src)
      PROVE  Skips(hist'[r].src[i], valid)
  BY <1>1, <1>2, <1>3, <1>6 DEF SourcesSkip
<1>7. QED
  BY <1>4, <1>5, <1>6 DEF SourcesSkip

(* Sender::finish makes up checkpoints that report no bytes. *)
LEMMA FinishSkips ==
    ASSUME SenderTypes, SourcesSkip, SenderTells, Finish, valid' = valid
    PROVE  SourcesSkip' /\ SenderTells'
<1>1. \A p \in Ports : hist[p] \in History
  BY DEF SenderTypes
<1>2. CASE AllSourcesAcked
  <2>1. /\ queue' = queue /\ cur' = cur /\ toApply' = toApply
        /\ \A p \in Ports : hist'[p].src = hist[p].src /\ hist'[p].last = hist[p].last
    BY <1>1, <1>2, HistoryUpdateType DEF Finish
  <2>2. QED
    BY <2>1 DEF SourcesSkip, SenderTells
<1>3. CASE ~AllSourcesAcked
  <2>1. PICK g \in BOOLEAN : g = FALSE
    BY Zenon
  <2>2. ASSUME NEW p \in Ports
        PROVE  /\ UnackedCheckpoint(hist[p], p) \in Checkpoint
               /\ Tells(UnackedCheckpoint(hist[p], p), valid)
    <3>1. UnackedCheckpoint(hist[p], p) \in Checkpoint
      BY <1>1, UnackedCheckpointType
    <3>2. UnackedCheckpoint(hist[p], p).off = 0 /\ UnackedCheckpoint(hist[p], p).bytes = 0
      BY DEF UnackedCheckpoint, NewCheckpoint
    <3>3. QED
      BY <3>1, <3>2 DEF Tells
  <2>3. ASSUME NEW p \in Ports
        PROVE  LET h == SetCheckpoint(hist[p], UnackedCheckpoint(hist[p], p), g)
               IN  /\ \A i \in 1..Len(h.src) : Skips(h.src[i], valid)
                   /\ h.last # NoCheckpoint => Tells(h.last, valid)
                   /\ \A s \in SourcesToReturn(hist[p], UnackedCheckpoint(hist[p], p), g) :
                         Skips(s, valid)
    <3>1. PICK h \in History, ck \in Checkpoint, v \in {valid} :
             h = hist[p] /\ ck = UnackedCheckpoint(hist[p], p) /\ v = valid
      BY <1>1, <2>2
    <3>2. Tells(ck, v) /\ \A i \in 1..Len(h.src) : Skips(h.src[i], v)
      BY <2>2, <3>1 DEF SourcesSkip
    <3>3. SetCheckpoint(h, ck, g).last = ck \/ SetCheckpoint(h, ck, g) = h
      BY DEF SetCheckpoint, History
    <3>4. SetCheckpoint(h, ck, g).last # NoCheckpoint => Tells(SetCheckpoint(h, ck, g).last, v)
      BY <3>1, <3>2, <3>3 DEF SenderTells
    <3>5. QED
      BY <3>1, <3>2, <3>4, SetCheckpointSkips
  <2>4. /\ \A p \in Ports :
              hist'[p] = SetCheckpoint(hist[p], UnackedCheckpoint(hist[p], p), g)
        /\ cur' = cur /\ toApply' = toApply
    BY Zenon, <1>3, <2>1 DEF Finish, ReturnUnackedSources
  <2>5. queue' = queue \cup UNION {UnackedSources(hist[p], p) : p \in Ports}
    BY <1>3 DEF Finish, ReturnToQueue
  <2>6. \A s \in queue' : Skips(s, valid)
    BY Zenon, <2>1, <2>3, <2>5 DEF UnackedSources, SourcesSkip
  <2>7. ASSUME NEW p \in Ports
        PROVE  /\ \A i \in 1..Len(hist'[p].src) : Skips(hist'[p].src[i], valid)
               /\ hist'[p].last # NoCheckpoint => Tells(hist'[p].last, valid)
    BY <2>3, <2>4
  <2>8. QED
    BY <2>4, <2>6, <2>7 DEF SourcesSkip, SenderTells
<1>4. QED
  BY <1>2, <1>3

-----------------------------------------------------------------------------
(* The checkpoints the sender keeps *)

(* What a sender thread takes from its connection, *)
Consumes(p) == toS[p][sConn[p]] # <<>> /\ SenderConsumes(p)

(* and what it does with the global checkpoints it has read. *)
AppliesNext(p) == toApply[p] # <<>> /\ toApply' = [toApply EXCEPT ![p] = Tail(@)]

ReadsList(p) ==
    /\ toS[p][sConn[p]] # <<>>
    /\ toApply' = [toApply EXCEPT ![p] = Head(toS[p][sConn[p]]).cks]

(* A sender thread reads a command or none, and drops checkpoints it has read
   in their order. *)
LEMMA SenderReadKinds ==
    ASSUME SenderInv, NEW p \in Ports, SenderStep(p)
    PROVE  /\ toS' = toS \/ (sConn[p] # 0 /\ Consumes(p))
           /\ toApply' = toApply \/ AppliesNext(p) \/ (sConn[p] # 0 /\ ReadsList(p))
<1> USE DEF Consumes, AppliesNext, ReadsList
<1>1. CASE AbortThread(p)
  BY <1>1 DEF AbortThread
<1>2. CASE ConnectToReceiver(p)
  BY <1>2 DEF ConnectToReceiver
<1>3. CASE GiveUpConnecting(p)
  BY <1>3 DEF GiveUpConnecting
<1>4. CASE ReadLocalCheckPoint(p)
  BY Zenon, <1>4 DEF ReadLocalCheckPoint, SenderAt, SenderReads, SenderInv
<1>5. CASE LocalCheckPointLost(p)
  BY Zenon, <1>5 DEF LocalCheckPointLost
<1>6. CASE SendSettings(p)
  BY <1>6 DEF SendSettings
<1>7. CASE SendSizeCmd(p)
  BY <1>7 DEF SendSizeCmd
<1>8. CASE SendOneByteSource(p)
  BY <1>8 DEF SendOneByteSource
<1>9. CASE AddSourceToHistory(p)
  BY <1>9 DEF AddSourceToHistory
<1>10. CASE SendDoneCmd(p)
  BY <1>10 DEF SendDoneCmd
<1>11. CASE CheckForAbort(p)
  BY Zenon, <1>11 DEF CheckForAbort
<1>12. CASE ProcessAbortCmd(p)
  BY Zenon, <1>12 DEF ProcessAbortCmd, SenderAt, SenderReads, SenderInv
<1>13. CASE ReceiverCmdLost(p)
  BY <1>13 DEF ReceiverCmdLost
<1>14. CASE SpuriousCheckpoint(p)
  BY Zenon, <1>14 DEF SpuriousCheckpoint, SenderAt, SenderReads, SenderInv
<1>15. CASE ProcessWaitCmd(p)
  BY Zenon, <1>15 DEF ProcessWaitCmd, SenderAt, SenderReads, SenderInv
<1>16. CASE ProcessDoneCmd(p)
  BY <1>16 DEF ProcessDoneCmd, SenderAt, SenderReads, SenderInv
<1>17. CASE ExpectEndOfStream(p)
  BY Zenon, <1>17 DEF ExpectEndOfStream, SenderAt, SenderReads, SenderInv
<1>18. CASE ProcessErrCmd(p)
  BY <1>18 DEF ProcessErrCmd, SenderAt, SenderReads, SenderInv
<1>19. CASE HandleGlobalCheckpoint(p)
  BY <1>19 DEF HandleGlobalCheckpoint, netVars
<1>20. CASE GlobalCheckpointApplied(p)
  BY <1>20 DEF GlobalCheckpointApplied, SenderInv, netVars
<1>21. QED
  BY Zenon, <1>1, <1>2, <1>3, <1>4, <1>5, <1>6, <1>7, <1>8, <1>9, <1>10, <1>11, <1>12, <1>13, <1>14, <1>15, <1>16, <1>17, <1>18, <1>19, <1>20 DEF SenderStep

(* Taking the first command from a stream, or the first checkpoint of a list. *)
LEMMA TailTells ==
    ASSUME NEW v
    PROVE  /\ \A s \in Seq(Message) : s # <<>> /\ TellsStream(s, v)
                 => TellsStream(Tail(s), v) /\ TellsAll(Head(s).cks, v)
           /\ \A s \in Seq(Checkpoint) : s # <<>> /\ TellsAll(s, v)
                 => TellsAll(Tail(s), v) /\ Tells(Head(s), v)
<1>1. ASSUME NEW s \in Seq(Message), s # <<>>, TellsStream(s, v)
      PROVE  TellsStream(Tail(s), v) /\ TellsAll(Head(s).cks, v)
  <2>1. Head(s) = s[1] /\ 1 \in 1..Len(s)
    BY <1>1
  <2>2. \A k \in 1..Len(Tail(s)) : k + 1 \in 1..Len(s) /\ Tail(s)[k] = s[k + 1]
    BY <1>1
  <2>3. QED
    BY <1>1, <2>1, <2>2 DEF TellsStream
<1>2. ASSUME NEW s \in Seq(Checkpoint), s # <<>>, TellsAll(s, v)
      PROVE  TellsAll(Tail(s), v) /\ Tells(Head(s), v)
  <2>1. Head(s) = s[1] /\ 1 \in 1..Len(s)
    BY <1>2
  <2>2. \A k \in 1..Len(Tail(s)) : k + 1 \in 1..Len(s) /\ Tail(s)[k] = s[k + 1]
    BY <1>2
  <2>3. QED
    BY <1>2, <2>1, <2>2 DEF TellsAll
<1>3. QED
  BY <1>1, <1>2

(* The commands and the global checkpoints a sender thread has yet to handle. *)
LEMMA SenderReadTells ==
    ASSUME NetTypeOK, SenderTypes, SenderInv, SenderTells, WireTells, NEW p \in Ports,
           SenderStep(p), valid' = valid
    PROVE  WireTells' /\ \A q \in Ports : TellsAll(toApply'[q], valid)
<1>1. PICK v : v = valid
  OBVIOUS
<1>2. toS \in Streams /\ \A q \in Ports : toApply[q] \in Seq(Checkpoint)
  BY DEF NetTypeOK, Streams, SenderTypes
<1>3. ASSUME sConn[p] # 0, toS[p][sConn[p]] # <<>>
      PROVE  /\ sConn[p] \in Conns
             /\ TellsStream(Tail(toS[p][sConn[p]]), v)
             /\ TellsAll(Head(toS[p][sConn[p]]).cks, v)
  <2>1. sConn[p] \in Conns
    BY <1>3, ConnectionsAssumption DEF NetTypeOK, Conns
  <2>2. toS[p][sConn[p]] \in Seq(Message) /\ TellsStream(toS[p][sConn[p]], v)
    BY <1>1, <1>2, <2>1, StreamOf DEF WireTells
  <2>3. QED
    BY Zenon, <1>3, <2>1, <2>2, TailTells
<1>4. CASE toS' = toS \/ (sConn[p] # 0 /\ Consumes(p))
  <2>1. ASSUME toS' = toS PROVE WireTells'
    BY <2>1 DEF WireTells
  <2>2. ASSUME sConn[p] # 0, Consumes(p) PROVE WireTells'
    <3>1. /\ toS'[p][sConn[p]] = Tail(toS[p][sConn[p]])
          /\ \A q \in Ports, i \in Conns : q # p \/ i # sConn[p] => toS'[q][i] = toS[q][i]
      BY <1>2, <1>3, <2>2 DEF Consumes, SenderConsumes, Streams
    <3>2. TellsStream(Tail(toS[p][sConn[p]]), v)
      BY <1>3, <2>2 DEF Consumes
    <3>3. ASSUME NEW q \in Ports, NEW i \in Conns
          PROVE  TellsStream(toS'[q][i], v)
      BY <1>1, <3>1, <3>2 DEF WireTells
    <3>4. QED
      BY <1>1, <3>3 DEF WireTells
  <2>3. WireTells'
    BY <1>4, <2>1, <2>2
  <2>4. CASE toApply' = toApply
    BY <2>3, <2>4 DEF SenderTells
  <2>5. CASE AppliesNext(p)
    <3>1. toApply'[p] = Tail(toApply[p]) /\ \A q \in Ports \ {p} : toApply'[q] = toApply[q]
      BY <2>5 DEF AppliesNext, SenderTypes
    <3>2. TellsAll(Tail(toApply[p]), v)
      BY Zenon, <1>1, <1>2, <2>5, TailTells DEF AppliesNext, SenderTells
    <3>3. QED
      BY <1>1, <2>3, <3>1, <3>2 DEF SenderTells
  <2>6. CASE sConn[p] # 0 /\ ReadsList(p)
    <3>1. /\ toApply'[p] = Head(toS[p][sConn[p]]).cks
          /\ \A q \in Ports \ {p} : toApply'[q] = toApply[q]
      BY <2>6 DEF ReadsList, SenderTypes
    <3>2. QED
      BY Zenon, <1>1, <1>3, <2>3, <2>6, <3>1 DEF ReadsList, SenderTells
  <2>7. QED
    BY <2>4, <2>5, <2>6, SenderReadKinds
<1>5. QED
  BY <1>4, SenderReadKinds

(* A sender thread takes a step. *)
LEMMA SenderTruthful ==
    ASSUME NetTypeOK, SenderTypes, SenderInv, Truthful, NEW p \in Ports, SenderStep(p),
           UNCHANGED receiverVars
    PROVE  Truthful'
<1>1. valid' = valid /\ SourcesSkip /\ SenderTells /\ WireTells
  BY DEF Truthful, receiverVars
<1>2. ReceiverTells'
  BY DEF Truthful, ReceiverTells, receiverVars
<1>3. WireTells' /\ \A q \in Ports : TellsAll(toApply'[q], valid)
  BY <1>1, SenderReadTells
<1>4. \A q \in Ports : hist[q] \in History
  BY DEF SenderTypes
<1>5. CASE SourcesUntouched
  <2>1. SourcesSkip'
    BY <1>1, <1>5, QuietSkips
  <2>2. QED
    BY <1>1, <1>2, <1>3, <1>5, <2>1 DEF Truthful, SenderTells, SourcesUntouched
<1>6. CASE TakesSource(p)
  <2>1. SourcesSkip'
    BY <1>1, <1>6, TakesSkips
  <2>2. QED
    BY <1>1, <1>2, <1>3, <1>6, <2>1 DEF Truthful, SenderTells, TakesSource
<1>7. CASE AddsSource(p)
  <2>1. SourcesSkip'
    BY <1>1, <1>7, AddsSkips
  <2>2. hist'[p].last = NoCheckpoint \/ hist'[p].last = hist[p].last
    BY <1>4, <1>7 DEF AddsSource, AddSource, History
  <2>3. \A q \in Ports \ {p} : hist'[q].last = hist[q].last
    BY <1>7 DEF AddsSource
  <2>4. QED
    BY <1>1, <1>2, <1>3, <2>1, <2>2, <2>3 DEF Truthful, SenderTells
<1>8. ASSUME NEW q \in Ports, NEW ck \in Checkpoint, NEW g \in BOOLEAN, Arrived(p, ck),
             SetsCheckpoint(q, ck, g)
      PROVE  Truthful'
  <2>1. PICK v : v = valid
    OBVIOUS
  <2>2. Tells(ck, v)
    <3>1. CASE toApply[p] # <<>> /\ ck = Head(toApply[p])
      <4>1. toApply[p] \in Seq(Checkpoint) /\ TellsAll(toApply[p], v)
        BY <1>1, <2>1 DEF SenderTypes, SenderTells
      <4>2. QED
        BY Zenon, <3>1, <4>1, TailTells
    <3>2. CASE ~(toApply[p] # <<>> /\ ck = Head(toApply[p]))
      <4>1. /\ sConn[p] # 0 /\ toS[p][sConn[p]] # <<>>
            /\ Head(toS[p][sConn[p]]).cks # <<>>
            /\ ck = Head(toS[p][sConn[p]]).cks[1]
        BY <1>8, <3>2 DEF Arrived
      <4>2. sConn[p] \in Conns
        BY <4>1, ConnectionsAssumption DEF NetTypeOK, Conns
      <4>3. toS[p][sConn[p]] \in Seq(Message) /\ TellsStream(toS[p][sConn[p]], v)
        BY <1>1, <2>1, <4>2, StreamOf DEF WireTells, NetTypeOK, Streams
      <4>4. TellsAll(Head(toS[p][sConn[p]]).cks, v) /\ Head(toS[p][sConn[p]]).cks \in Seq(Checkpoint)
        <5>1. Head(toS[p][sConn[p]]) \in Message
          BY <4>1, SenderReadType
        <5>2. QED
          BY Zenon, <4>1, <4>3, <5>1, TailTells DEF Message
      <4>5. 1 \in 1..Len(Head(toS[p][sConn[p]]).cks)
        <5>1. PICK cks \in Seq(Checkpoint) : cks = Head(toS[p][sConn[p]]).cks
          BY <4>4
        <5>2. cks # <<>>
          BY <4>1, <5>1
        <5>3. 1 \in 1..Len(cks)
          BY <5>2
        <5>4. QED
          BY <5>1, <5>3
      <4>6. QED
        BY Zenon, <4>1, <4>4, <4>5 DEF TellsAll
    <3>3. QED
      BY <3>1, <3>2
  <2>3. SourcesSkip'
    BY <1>1, <1>8, <2>1, <2>2, CheckpointSkips
  <2>4. hist'[q].last = ck /\ \A r \in Ports \ {q} : hist'[r].last = hist[r].last
    BY <1>4, <1>8 DEF SetsCheckpoint, SetCheckpoint, History, SenderTypes
  <2>5. QED
    BY Zenon, <1>1, <1>2, <1>3, <2>1, <2>2, <2>3, <2>4 DEF Truthful, SenderTells
<1>9. QED
  BY <1>5, <1>6, <1>7, <1>8, SenderStepKinds

-----------------------------------------------------------------------------
(* The receiver and the network *)

(* What has been reported stays reported while bytes arrive. *)
LEMMA TellsMore ==
    ASSUME NEW v, NEW w, v \subseteq w
    PROVE  /\ \A ck : Tells(ck, v) => Tells(ck, w)
           /\ \A cks : TellsAll(cks, v) => TellsAll(cks, w)
           /\ \A s : TellsStream(s, v) => TellsStream(s, w)
<1>1. \A ck : Tells(ck, v) => Tells(ck, w)
  BY DEF Tells
<1>2. \A cks : TellsAll(cks, v) => TellsAll(cks, w)
  BY <1>1 DEF TellsAll
<1>3. QED
  BY <1>1, <1>2 DEF TellsStream

(* Checkpoints whose last block details are reset, or set to bytes that v has. *)
LEMMA DetailsTell ==
    ASSUME NEW ck \in Checkpoint, NEW s \in Source, NEW n \in 0..SizeOf(s), NEW v
    PROVE  /\ Tells(ResetLastBlockDetails(ck), v)
           /\ BytesOf(s, n) \subseteq v => Tells(SetLastBlockDetails(ck, s, n), v)
<1>1. ResetLastBlockDetails(ck).off = 0 /\ ResetLastBlockDetails(ck).bytes = 0
  BY DEF ResetLastBlockDetails, NewCheckpoint
<1>2. /\ SetLastBlockDetails(ck, s, n).blk = s.blk
      /\ SetLastBlockDetails(ck, s, n).off = s.off
      /\ SetLastBlockDetails(ck, s, n).bytes = n
  BY DEF SetLastBlockDetails
<1>3. s.off \in 0..BlockSize /\ SizeOf(s) \in 0..BlockSize
  BY SizeOfType DEF Source
<1>4. Tells(ResetLastBlockDetails(ck), v)
  BY <1>1 DEF Tells
<1>5. ASSUME BytesOf(s, n) \subseteq v
      PROVE  \A x \in s.off .. (s.off + n - 1) : <<s.blk, x>> \in v
  BY <1>5 DEF BytesOf
<1>6. QED
  BY <1>2, <1>4, <1>5 DEF Tells

(* markBlockVerified counts blocks and does not change what the checkpoint
   says about its last block. *)
LEMMA MarkVerifiedTells ==
    ASSUME ReceiverTypeOK, NEW p \in Ports, NEW ck \in Checkpoint, NEW srcs \in Seq(Source),
           NEW part, MarkVerified(p, ck, srcs, part), Tells(ck, valid \cup part)
    PROVE  valid \subseteq valid' /\ Tells(rCheckpoint'[p], valid')
<1>1. valid \cup part \subseteq valid'
  BY DEF MarkVerified
<1>2. rCheckpoint'[p] = [ck EXCEPT !.numBlocks = ck.numBlocks + Len(srcs)]
  BY DEF MarkVerified, ReceiverTypeOK
<1>3. /\ rCheckpoint'[p].blk = ck.blk
      /\ rCheckpoint'[p].off = ck.off
      /\ rCheckpoint'[p].bytes = ck.bytes
  BY <1>2 DEF Checkpoint
<1>4. QED
  BY <1>1, <1>3 DEF Tells

(* A receiver thread verifies blocks, starting from a checkpoint that is true. *)
Verifies(p) ==
    \E ck \in Checkpoint, srcs \in Seq(Source), part \in SUBSET (Blocks \X (0..BlockSize)) :
        MarkVerified(p, ck, srcs, part) /\ Tells(ck, valid \cup part)

(* A range that ends inside another one. *)
LEMMA RangeIn ==
    ASSUME NEW a \in 0..BlockSize, NEW g \in 0..a, NEW n \in 0..g
    PROVE  n \in 0..a
BY BlockSizeAssumption

(* What a receiver thread does to its checkpoint. *)
LEMMA ReceiverCheckpointKinds ==
    ASSUME NetTypeOK, ReceiverTypeOK, ReceiverInv, ReceiverTells, NEW p \in Ports, ReceiverStep(p)
    PROVE  \/ rCheckpoint' = rCheckpoint /\ valid' = valid
           \/ /\ rCheckpoint' = [rCheckpoint EXCEPT ![p] = ResetLastBlockDetails(@)]
              /\ valid' = valid
           \/ Verifies(p)
<1>0. /\ rCheckpoint[p] \in Checkpoint /\ ResetLastBlockDetails(rCheckpoint[p]) \in Checkpoint
      /\ \A done \in Confirmed(p) : done \in Seq(Source)
      /\ rVerify[p] \in Seq(Source) /\ valid \in SUBSET (Blocks \X (0..BlockSize))
  BY ResetType, ConfirmedType DEF ReceiverTypeOK
<1>1. PICK ck \in Checkpoint, rs \in Checkpoint, v \in SUBSET (Blocks \X (0..BlockSize)) :
         ck = rCheckpoint[p] /\ rs = ResetLastBlockDetails(rCheckpoint[p]) /\ v = valid
  BY Zenon, <1>0
<1>2. /\ {} \in SUBSET (Blocks \X (0..BlockSize)) /\ v \cup {} = v
      /\ Tells(ck, v \cup {})
  BY <1>1 DEF ReceiverTells
<1>3. \A w : Tells(rs, w)
  <2> SUFFICES ASSUME NEW w PROVE Tells(rs, w)
    OBVIOUS
  <2>1. rs.off = 0 /\ rs.bytes = 0
    BY <1>1 DEF ResetLastBlockDetails, NewCheckpoint
  <2>2. QED
    BY <2>1 DEF Tells
<1>4. ASSUME NEW done \in Seq(Source), MarkVerified(p, rCheckpoint[p], done, {})
      PROVE  Verifies(p)
  BY Zenon, <1>1, <1>2, <1>4 DEF Verifies
<1>5. ASSUME NEW done \in Seq(Source), MarkVerified(p, ResetLastBlockDetails(rCheckpoint[p]), done, {})
      PROVE  Verifies(p)
  BY <1>1, <1>2, <1>3, <1>5 DEF Verifies
<1>6. ASSUME NEW done \in Seq(Source), NEW s \in Source, NEW n \in 0..SizeOf(s),
             MarkVerified(p, SetLastBlockDetails(ResetLastBlockDetails(rCheckpoint[p]), s, n),
                          done, BytesOf(s, n))
      PROVE  Verifies(p)
  <2>1. PICK nc \in Checkpoint, b \in SUBSET (Blocks \X (0..BlockSize)) :
           nc = SetLastBlockDetails(rs, s, n) /\ b = BytesOf(s, n)
    BY SetLastBlockType, BytesOfType
  <2>2. Tells(nc, v \cup b)
    BY <2>1, DetailsTell
  <2>3. QED
    BY Zenon, <1>1, <1>6, <2>1, <2>2 DEF Verifies
<1>7. ASSUME ReceiverReads(p, "FILE"), rState[p] = "READ_NEXT_CMD"
      PROVE  /\ Head(toR[p][rConn[p]]).src \in Source
             /\ Head(toR[p][rConn[p]]).got \in 0..SizeOf(Head(toR[p][rConn[p]]).src)
             /\ <<Head(toR[p][rConn[p]]).src>> \in Seq(Source)
  <2>1. rConn[p] # 0
    BY <1>7 DEF ReceiverInv
  <2>2. Head(toR[p][rConn[p]]) \in Message /\ Head(toR[p][rConn[p]]).cmd = "FILE"
    BY <1>7, <2>1, ReceiverReadType DEF ReceiverReads
  <2>3. PICK m \in Message : m = Head(toR[p][rConn[p]]) /\ m.cmd = "FILE"
    BY Zenon, <2>2
  <2>4. m.src \in Source /\ m.got \in 0..SizeOf(m.src)
    BY Zenon, <2>3, FileMessageType
  <2>5. \A s \in Source : <<s>> \in Seq(Source)
    OBVIOUS
  <2>6. QED
    BY Zenon, <2>3, <2>4, <2>5
<1>8. CASE AcceptFirstConnection(p)
  BY Zenon, <1>8 DEF AcceptFirstConnection
<1>9. CASE AcceptWithTimeout(p)
  BY Zenon, <1>9 DEF AcceptWithTimeout
<1>10. CASE AcceptTimesOut(p)
  BY Zenon, <1>10 DEF AcceptTimesOut
<1>11. CASE SendLocalCheckpoint(p)
  BY <1>11 DEF SendLocalCheckpoint
<1>12. CASE NextCmdLost(p)
  BY Zenon, <1>0, <1>4, <1>12 DEF NextCmdLost
<1>13. CASE ProcessSettingsOrSize(p)
  BY <1>13 DEF ProcessSettingsOrSize
<1>14. CASE ProcessFileCmd(p)
  BY Zenon, <1>0, <1>5, <1>7, <1>14 DEF ProcessFileCmd
<1>15. CASE PartialFileCmd(p)
  <2> DEFINE m == Head(toR[p][rConn[p]])
  <2>1. m.src \in Source /\ m.got \in 0..SizeOf(m.src)
    BY Zenon, <1>7, <1>15 DEF PartialFileCmd
  <2>2. CASE m.part = "DATA" /\ FooterType = "NO_FOOTER"
    BY Zenon, <1>0, <1>6, <1>15, <2>1, <2>2 DEF PartialFileCmd
  <2>3. CASE ~(m.part = "DATA" /\ FooterType = "NO_FOOTER")
    BY Zenon, <1>0, <1>5, <1>15, <2>3 DEF PartialFileCmd
  <2>4. QED
    BY <2>2, <2>3
<1>16. CASE ChecksumMismatch(p)
  BY Zenon, <1>16 DEF ChecksumMismatch
<1>17. CASE FileWriteFails(p)
  <2> DEFINE m == Head(toR[p][rConn[p]])
  <2>1. m.src \in Source /\ m.got \in 0..SizeOf(m.src)
    BY Zenon, <1>7, <1>17 DEF FileWriteFails
  <2>0. SizeOf(m.src) \in 0..BlockSize
    BY Zenon, <2>1, SizeOfType
  <2>2. CASE FooterType = "NO_FOOTER"
    <3>1. PICK n \in 0..m.got, done \in Confirmed(p) :
             MarkVerified(p, SetLastBlockDetails(ResetLastBlockDetails(rCheckpoint[p]), m.src, n),
                          done, BytesOf(m.src, n))
      BY Zenon, <1>17, <2>2 DEF FileWriteFails
    <3>2. n \in 0..SizeOf(m.src)
      BY Zenon, <2>0, <2>1, <3>1, RangeIn
    <3>3. QED
      BY Zenon, <1>0, <1>6, <2>1, <3>1, <3>2
  <2>3. CASE FooterType # "NO_FOOTER"
    BY <1>0, <1>5, <1>17, <2>3 DEF FileWriteFails
  <2>4. QED
    BY <2>2, <2>3
<1>18. CASE ProcessDone(p)
  BY <1>0, <1>4, <1>18 DEF ProcessDone
<1>19. CASE CheckForFinishOrNewCheckpoints(p)
  BY Zenon, <1>19 DEF CheckForFinishOrNewCheckpoints
<1>20. CASE SendWait(p)
  BY <1>20 DEF SendWait
<1>21. CASE SendGlobalCheckpoint(p)
  BY Zenon, <1>21 DEF SendGlobalCheckpoint
<1>22. CASE SendDone(p)
  BY <1>22 DEF SendDone
<1>23. CASE ReadDoneAck(p)
  BY Zenon, <1>0, <1>4, <1>23 DEF ReadDoneAck
<1>24. CASE FinishWithError(p)
  BY <1>24 DEF FinishWithError
<1>25. QED
  BY Zenon, <1>8, <1>9, <1>10, <1>11, <1>12, <1>13, <1>14, <1>15, <1>16, <1>17, <1>18, <1>19, <1>20,
     <1>21, <1>22, <1>23, <1>24 DEF ReceiverStep

(* What a receiver thread writes, and what it does with the checkpoints that
   the receiver collects. *)
Writes(p) ==
    \E m \in Message :
        /\ rConn[p] # 0 /\ ReceiverWriteOk(p, m)
        /\ m.cks = <<>> \/ m.cks = <<rCheckpoint[p]>> \/ m.cks = newCks[p]

Collects(p) ==
    \/ UNCHANGED <<newCks, checkpoints>>
    \/ checkpoints' = checkpoints /\ newCks' = [newCks EXCEPT ![p] = NewCheckpoints(p)]
    \/ newCks' = newCks /\ checkpoints' = Append(checkpoints, rCheckpoint[p])

(* What a step of a receiver thread writes to the sender. *)
LEMMA ReceiverWriteKinds ==
    ASSUME ReceiverTypeOK, ReceiverInv, NEW p \in Ports, ReceiverStep(p)
    PROVE  (toS' = toS \/ Writes(p)) /\ Collects(p)
<1>0. /\ rCheckpoint[p] \in Checkpoint /\ newCks[p] \in Seq(Checkpoint)
      /\ <<rCheckpoint[p]>> \in Seq(Checkpoint) /\ <<rCheckpoint[p]>> # <<>>
  BY DEF ReceiverTypeOK
<1>1. /\ \A c \in Cmds \ {"FILE", "LOCAL_CHECKPOINT"} : Cmd(c) \in Message /\ Cmd(c).cks = <<>>
      /\ {"ABORT", "WAIT", "DONE", "EOS"} \subseteq Cmds \ {"FILE", "LOCAL_CHECKPOINT"}
  BY CmdType DEF Cmd, Cmds
<1>2. /\ CheckpointCmd("LOCAL_CHECKPOINT", <<rCheckpoint[p]>>) \in Message
      /\ CheckpointCmd("LOCAL_CHECKPOINT", <<rCheckpoint[p]>>).cks = <<rCheckpoint[p]>>
      /\ CheckpointCmd("ERR", newCks[p]) \in Message
      /\ CheckpointCmd("ERR", newCks[p]).cks = newCks[p]
  <2>1. /\ CheckpointCmd("LOCAL_CHECKPOINT", <<rCheckpoint[p]>>) \in Message
        /\ CheckpointCmd("ERR", newCks[p]) \in Message
    BY Zenon, <1>0, CheckpointCmdType
  <2>2. QED
    BY <2>1 DEF CheckpointCmd, Cmd
<1>3. ASSUME NEW c \in {"ABORT", "WAIT", "DONE", "EOS"}, ReceiverWriteOk(p, Cmd(c)), rConn[p] # 0
      PROVE  Writes(p)
  BY Zenon, <1>1, <1>3 DEF Writes
<1>4. CASE AcceptFirstConnection(p)
  BY Zenon, <1>4 DEF AcceptFirstConnection, Collects
<1>5. CASE AcceptWithTimeout(p)
  BY Zenon, <1>5 DEF AcceptWithTimeout, Collects
<1>6. CASE AcceptTimesOut(p)
  BY Zenon, <1>6 DEF AcceptTimesOut, Collects, netVars
<1>7. CASE SendLocalCheckpoint(p)
  <2>1. Collects(p) /\ rConn[p] # 0
    BY Zenon, <1>7 DEF SendLocalCheckpoint, Collects, ReceiverInv
  <2>2. QED
    BY Zenon, <1>2, <1>7, <2>1 DEF SendLocalCheckpoint, ReceiverWriteFails, Writes
<1>8. CASE NextCmdLost(p)
  BY Zenon, <1>8 DEF NextCmdLost, Collects
<1>9. CASE ProcessSettingsOrSize(p)
  BY <1>9 DEF ProcessSettingsOrSize, Collects
<1>10. CASE ProcessFileCmd(p)
  BY Zenon, <1>10 DEF ProcessFileCmd, Collects
<1>11. CASE PartialFileCmd(p)
  BY Zenon, <1>11 DEF PartialFileCmd, Collects
<1>12. CASE ChecksumMismatch(p)
  BY <1>12 DEF ChecksumMismatch, Collects
<1>13. CASE FileWriteFails(p)
  <2>1. Collects(p) /\ rConn[p] # 0 /\ ReceiverWriteOk(p, Cmd("ABORT"))
    BY <1>13 DEF FileWriteFails, Collects, ReceiverInv
  <2>2. QED
    BY <1>3, <2>1
<1>14. CASE ProcessDone(p)
  BY <1>14 DEF ProcessDone, Collects
<1>15. CASE CheckForFinishOrNewCheckpoints(p)
  BY Zenon, <1>15 DEF CheckForFinishOrNewCheckpoints, Collects, netVars
<1>16. CASE SendWait(p)
  <2>1. Collects(p) /\ rConn[p] # 0 /\ (toS' = toS \/ ReceiverWriteOk(p, Cmd("WAIT")))
    BY Zenon, <1>16 DEF SendWait, Collects, ReceiverInv, ReceiverWriteFails
  <2>2. QED
    BY <1>3, <2>1
<1>17. CASE SendGlobalCheckpoint(p)
  <2>1. Collects(p) /\ rConn[p] # 0
    BY Zenon, <1>17 DEF SendGlobalCheckpoint, Collects, ReceiverInv
  <2>2. QED
    BY Zenon, <1>2, <1>17, <2>1 DEF SendGlobalCheckpoint, ReceiverWriteFails, Writes
<1>18. CASE SendDone(p)
  <2>1. Collects(p) /\ rConn[p] # 0 /\ (toS' = toS \/ ReceiverWriteOk(p, Cmd("DONE")))
    BY Zenon, <1>18 DEF SendDone, Collects, ReceiverInv, ReceiverWriteFails
  <2>2. QED
    BY <1>3, <2>1
<1>19. CASE ReadDoneAck(p)
  <2>1. Collects(p) /\ rConn[p] # 0 /\ (toS' = toS \/ ReceiverWriteOk(p, Cmd("EOS")))
    BY Zenon, <1>19 DEF ReadDoneAck, Collects, ReceiverInv
  <2>2. QED
    BY <1>3, <2>1
<1>20. CASE FinishWithError(p)
  BY <1>20 DEF FinishWithError, Collects
<1>21. QED
  BY <1>4, <1>5, <1>6, <1>7, <1>8, <1>9, <1>10, <1>11, <1>12, <1>13, <1>14, <1>15, <1>16, <1>17,
     <1>18, <1>19, <1>20 DEF ReceiverStep

(* A command, or a checkpoint, is added to a list. *)
LEMMA AppendTells ==
    ASSUME NEW v
    PROVE  /\ \A s \in Seq(Message), m \in Message :
                 TellsStream(s, v) /\ TellsAll(m.cks, v) => TellsStream(Append(s, m), v)
           /\ \A s \in Seq(Checkpoint), ck \in Checkpoint :
                 TellsAll(s, v) /\ Tells(ck, v) => TellsAll(Append(s, ck), v)
<1>1. ASSUME NEW s \in Seq(Message), NEW m \in Message, TellsStream(s, v), TellsAll(m.cks, v)
      PROVE  TellsStream(Append(s, m), v)
  <2>1. \A k \in 1..Len(Append(s, m)) : IF k = Len(s) + 1 THEN Append(s, m)[k] = m
                                        ELSE k \in 1..Len(s) /\ Append(s, m)[k] = s[k]
    OBVIOUS
  <2>2. QED
    BY <1>1, <2>1 DEF TellsStream
<1>2. ASSUME NEW s \in Seq(Checkpoint), NEW ck \in Checkpoint, TellsAll(s, v), Tells(ck, v)
      PROVE  TellsAll(Append(s, ck), v)
  <2>1. \A k \in 1..Len(Append(s, ck)) : IF k = Len(s) + 1 THEN Append(s, ck)[k] = ck
                                         ELSE k \in 1..Len(s) /\ Append(s, ck)[k] = s[k]
    OBVIOUS
  <2>2. QED
    BY <1>2, <2>1 DEF TellsAll
<1>3. QED
  BY <1>1, <1>2

(* The rest of a sequence after its first n elements. *)
LEMMA SuffixFacts ==
    ASSUME NEW S, NEW s \in Seq(S), NEW n \in Nat
    PROVE  \A i \in 1..Len(SubSeq(s, n + 1, Len(s))) :
              n + i \in 1..Len(s) /\ SubSeq(s, n + 1, Len(s))[i] = s[n + i]
OBVIOUS

(* A receiver thread takes a step. *)
LEMMA ReceiverTruthful ==
    ASSUME NetTypeOK, ReceiverTypeOK, ReceiverInv, Truthful, NEW p \in Ports, ReceiverStep(p),
           UNCHANGED senderVars
    PROVE  Truthful'
<1>1. ReceiverTells /\ WireTells /\ SourcesSkip /\ SenderTells
  BY DEF Truthful
<1>2. PICK v, w : v = valid /\ w = valid'
  OBVIOUS
<1>3. /\ v \subseteq w /\ Tells(rCheckpoint'[p], w)
      /\ \A q \in Ports \ {p} : rCheckpoint'[q] = rCheckpoint[q]
  <2>1. CASE rCheckpoint' = rCheckpoint /\ valid' = valid
    BY Zenon, <1>1, <1>2, <2>1 DEF ReceiverTells
  <2>2. CASE /\ rCheckpoint' = [rCheckpoint EXCEPT ![p] = ResetLastBlockDetails(@)]
             /\ valid' = valid
    <3>1. rCheckpoint'[p].off = 0 /\ rCheckpoint'[p].bytes = 0
      BY <2>2 DEF ResetLastBlockDetails, NewCheckpoint, ReceiverTypeOK
    <3>2. QED
      BY <1>2, <2>2, <3>1 DEF Tells, ReceiverTypeOK
  <2>3. CASE Verifies(p)
    <3>1. PICK ck \in Checkpoint, srcs \in Seq(Source),
               part \in SUBSET (Blocks \X (0..BlockSize)) :
             MarkVerified(p, ck, srcs, part) /\ Tells(ck, valid \cup part)
      BY Zenon, <2>3 DEF Verifies
    <3>2. \A q \in Ports \ {p} : rCheckpoint'[q] = rCheckpoint[q]
      BY <3>1 DEF MarkVerified, ReceiverTypeOK
    <3>3. QED
      BY <1>2, <3>1, <3>2, MarkVerifiedTells
  <2>4. QED
    BY <1>1, <2>1, <2>2, <2>3, ReceiverCheckpointKinds
<1>4. /\ \A ck : Tells(ck, v) => Tells(ck, w)
      /\ \A cks : TellsAll(cks, v) => TellsAll(cks, w)
      /\ \A s : TellsStream(s, v) => TellsStream(s, w)
  BY Zenon, <1>3, TellsMore
<1>5. SourcesSkip' /\ SenderTells'
  BY Zenon, <1>1, <1>2, <1>3, <1>4, QuietSkips DEF SenderTells, SourcesUntouched, senderVars
<1>6. /\ \A q \in Ports : rCheckpoint[q] \in Checkpoint /\ newCks[q] \in Seq(Checkpoint)
      /\ checkpoints \in Seq(Checkpoint)
      /\ \A q \in Ports : Tells(rCheckpoint[q], w) /\ TellsAll(newCks[q], w)
      /\ TellsAll(checkpoints, w)
  BY <1>1, <1>2, <1>4 DEF ReceiverTells, ReceiverTypeOK
<1>7. WireTells'
  <2>1. toS \in Streams /\ \A q \in Ports, i \in Conns : TellsStream(toS[q][i], w)
    BY <1>1, <1>2, <1>4 DEF NetTypeOK, Streams, WireTells
  <2>2. CASE toS' = toS
    BY <1>2, <2>1, <2>2 DEF WireTells
  <2>3. CASE Writes(p)
    <3>1. PICK m \in Message :
             /\ rConn[p] # 0 /\ ReceiverWriteOk(p, m)
             /\ m.cks = <<>> \/ m.cks = <<rCheckpoint[p]>> \/ m.cks = newCks[p]
      BY <2>3 DEF Writes
    <3>2. TellsAll(m.cks, w)
      <4>1. TellsAll(<<>>, w)
        BY DEF TellsAll
      <4>2. ASSUME NEW k, Tells(k, w)
            PROVE  TellsAll(<<k>>, w)
        BY <4>2 DEF TellsAll
      <4>3. QED
        BY Zenon, <1>6, <3>1, <4>1, <4>2
    <3>3. CASE ReachesSender(p)
      <4>1. rConn[p] \in Conns
        BY <3>1, ConnectionsAssumption DEF NetTypeOK, Conns
      <4>2. toS[p][rConn[p]] \in Seq(Message)
        BY Zenon, <2>1, <4>1, StreamOf
      <4>3. /\ toS'[p][rConn[p]] = Append(toS[p][rConn[p]], m)
            /\ \A q \in Ports, i \in Conns : q # p \/ i # rConn[p] => toS'[q][i] = toS[q][i]
        BY Zenon, <2>1, <3>1, <3>3, <4>1 DEF ReceiverWriteOk, Streams
      <4>4. TellsStream(Append(toS[p][rConn[p]], m), w)
        BY Zenon, <2>1, <3>2, <4>1, <4>2, AppendTells
      <4>5. \A q \in Ports, i \in Conns : TellsStream(toS'[q][i], w)
        BY Zenon, <2>1, <4>3, <4>4
      <4>6. QED
        BY <1>2, <4>5 DEF WireTells
    <3>4. CASE ~ReachesSender(p)
      BY <1>2, <2>1, <3>1, <3>4 DEF WireTells, ReceiverWriteOk
    <3>5. QED
      BY <3>3, <3>4
  <2>4. QED
    BY <2>2, <2>3, ReceiverWriteKinds
<1>8. ReceiverTells'
  <2>1. CASE UNCHANGED <<newCks, checkpoints>>
    BY <1>2, <1>3, <1>6, <2>1 DEF ReceiverTells
  <2>2. CASE checkpoints' = checkpoints /\ newCks' = [newCks EXCEPT ![p] = NewCheckpoints(p)]
    <3>1. ckIndex[p] \in Nat
      BY DEF ReceiverTypeOK
    <3>2. PICK s \in Seq(Checkpoint), n \in Nat : s = checkpoints /\ n = ckIndex[p]
      BY Zenon, <1>6, <3>1
    <3>3. \A i \in 1..Len(SubSeq(s, n + 1, Len(s))) :
             n + i \in 1..Len(s) /\ SubSeq(s, n + 1, Len(s))[i] = s[n + i]
      BY SuffixFacts
    <3>4. TellsAll(NewCheckpoints(p), w)
      BY Zenon, <1>6, <3>2, <3>3 DEF TellsAll, NewCheckpoints
    <3>5. newCks'[p] = NewCheckpoints(p) /\ \A q \in Ports \ {p} : newCks'[q] = newCks[q]
      BY <2>2 DEF ReceiverTypeOK
    <3>6. QED
      BY Zenon, <1>2, <1>3, <1>6, <2>2, <3>4, <3>5 DEF ReceiverTells
  <2>3. CASE newCks' = newCks /\ checkpoints' = Append(checkpoints, rCheckpoint[p])
    BY Zenon, <1>2, <1>3, <1>6, <2>3, AppendTells DEF ReceiverTells
  <2>4. QED
    BY <2>1, <2>2, <2>3, ReceiverWriteKinds DEF Collects
<1>9. QED
  BY <1>5, <1>7, <1>8 DEF Truthful

(* A connection fails: fewer checkpoints are on their way. *)
LEMMA BreakTruthful ==
    ASSUME NetTypeOK, Truthful, NEW p \in Ports, NEW i \in Conns, Break(p, i),
           UNCHANGED <<senderVars, receiverVars>>
    PROVE  Truthful'
<1>1. toS \in Streams /\ toS[p][i] \in Seq(Message) /\ TellsStream(toS[p][i], valid)
  BY StreamOf DEF NetTypeOK, Streams, Truthful, WireTells
<1>2. PICK s \in Cuts(toS[p][i]) : toS' = [toS EXCEPT ![p][i] = s]
  BY Zenon DEF Break
<1>3. /\ toS'[p][i] = s
      /\ \A q \in Ports, j \in Conns : q # p \/ j # i => toS'[q][j] = toS[q][j]
  BY <1>1, <1>2 DEF Streams
<1>4. PICK t \in Seq(Message) : t = toS[p][i]
  BY <1>1
<1>5. Len(s) <= Len(t) /\ \A k \in 1..Len(s) : s[k].cks = t[k].cks \/ s[k].cks = <<>>
  BY <1>2, <1>4, CutsPrefix
<1>6. ASSUME NEW k \in 1..Len(s)
      PROVE  TellsAll(s[k].cks, valid)
  <2>1. k \in 1..Len(t) /\ s \in Seq(Message)
    BY <1>2, <1>4, <1>5, CutsType
  <2>2. CASE s[k].cks = t[k].cks
    BY <1>1, <1>4, <2>1, <2>2 DEF TellsStream
  <2>3. CASE s[k].cks = <<>>
    BY <2>3 DEF TellsAll
  <2>4. QED
    BY <1>5, <2>2, <2>3
<1>7. \A q \in Ports, j \in Conns : TellsStream(toS'[q][j], valid)
  BY <1>3, <1>6 DEF Truthful, WireTells, TellsStream
<1>8. valid' = valid
  BY DEF receiverVars
<1>9. WireTells'
  BY Zenon, <1>7, <1>8 DEF WireTells
<1>10. SourcesSkip' /\ SenderTells' /\ ReceiverTells'
  BY Zenon DEF senderVars, receiverVars, Truthful, SourcesSkip, SenderTells, ReceiverTells
<1>11. QED
  BY <1>9, <1>10 DEF Truthful

-----------------------------------------------------------------------------
(* That all checkpoints are true is inductive once the types are known. *)
TruthInv == TypeInv /\ Truthful

(* The transfer starts with nothing skipped and nothing reported. *)
LEMMA InitTruthful == Init => Truthful
<1> SUFFICES ASSUME Init PROVE Truthful
  OBVIOUS
<1>1. \A s \in queue : s.off = 0
  BY DEF Init, SenderInit
<1>2. \A s \in queue : Skips(s, valid)
  BY <1>1 DEF Skips
<1>3. \A p \in Ports : cur[p] = NoSource /\ hist[p] = NewHistory /\ toApply[p] = <<>>
  BY DEF Init, SenderInit
<1>4. NewHistory.src = <<>> /\ NewHistory.last = NoCheckpoint
  BY DEF NewHistory
<1>5. SourcesSkip /\ SenderTells
  <2>1. TellsAll(<<>>, valid) /\ \A i \in 1..Len(<<>>) : FALSE
    BY DEF TellsAll
  <2>2. QED
    BY Zenon, <1>2, <1>3, <1>4, <2>1 DEF SourcesSkip, SenderTells
<1>6. WireTells
  BY DEF Init, NetInit, WireTells, TellsStream
<1>7. \A p \in Ports : Tells(NewCheckpoint(p), valid)
  BY DEF NewCheckpoint, Tells
<1>8. /\ \A p \in Ports : rCheckpoint[p] = NewCheckpoint(p) /\ newCks[p] = <<>>
      /\ checkpoints = <<>>
  BY DEF Init, ReceiverInit
<1>9. ReceiverTells
  BY <1>7, <1>8 DEF ReceiverTells, TellsAll
<1>10. QED
  BY <1>5, <1>6, <1>9 DEF Truthful

(* No step of either side or of the network makes a checkpoint untrue. *)
LEMMA NextTruthful == TruthInv /\ [Next]_vars => Truthful'
<1> SUFFICES ASSUME TypeInv, Truthful, [Next]_vars PROVE Truthful'
  BY DEF TruthInv
<1>1. NetTypeOK /\ SenderTypes /\ ReceiverTypeOK /\ SenderInv /\ ReceiverInv
  BY DEF TypeInv
<1>2. ASSUME NEW p \in Ports, SenderStep(p), UNCHANGED receiverVars
      PROVE  Truthful'
  BY <1>1, <1>2, SenderTruthful
<1>3. ASSUME NEW p \in Ports, ReceiverStep(p), UNCHANGED senderVars
      PROVE  Truthful'
  BY <1>1, <1>3, ReceiverTruthful
<1>4. ASSUME Finish, UNCHANGED receiverVars
      PROVE  Truthful'
  <2>1. SourcesSkip' /\ SenderTells'
    BY <1>1, <1>4, FinishSkips DEF receiverVars, Truthful
  <2>2. WireTells' /\ ReceiverTells'
    BY Zenon, <1>4 DEF receiverVars, Truthful, WireTells, ReceiverTells, Finish, netVars
  <2>3. QED
    BY <2>1, <2>2 DEF Truthful
<1>5. ASSUME NEW p \in Ports, NEW i \in Conns, Break(p, i), UNCHANGED <<senderVars, receiverVars>>
      PROVE  Truthful'
  BY <1>1, <1>5, BreakTruthful
<1>6. CASE UNCHANGED vars
  BY Zenon, <1>6 DEF vars, netVars, senderVars, receiverVars, Truthful, SourcesSkip, SenderTells,
              WireTells, ReceiverTells
<1>7. QED
  BY <1>2, <1>3, <1>4, <1>5, <1>6 DEF Next

(* For any number of ports, blocks, connections and failures, and with any kind
   of footer: a source that is sent again from the middle of a block, after a
   local or a global checkpoint reported part of it, skips only bytes that the
   receiver has. *)
THEOREM SkippedBytesArrived == Spec => []SkippedBytesDelivered
<1>1. Init => TruthInv
  BY InitTypeInv, InitTruthful DEF TruthInv
<1>2. TruthInv /\ [Next]_vars => TruthInv'
  BY NextTypeInv, NextTruthful DEF TruthInv
<1>3. TruthInv => SkippedBytesDelivered
  <2> SUFFICES ASSUME SourcesSkip,
                      NEW s \in queue \cup {SourceAt(x) : x \in Taken}
               PROVE  Skips(s, valid)
    BY Zenon DEF TruthInv, Truthful, SkippedBytesDelivered, Skips
  <2>1. CASE s \in queue
    BY <2>1 DEF SourcesSkip
  <2>2. CASE \E p \in Ports : cur[p] # NoSource /\ s = cur[p]
    BY <2>2 DEF SourcesSkip
  <2>3. CASE \E p \in Ports : \E i \in 1..Len(hist[p].src) : s = hist[p].src[i]
    BY <2>3 DEF SourcesSkip
  <2>4. ASSUME NEW x \in Taken, s = SourceAt(x)
        PROVE  \/ \E p \in Ports : cur[p] # NoSource /\ s = cur[p]
               \/ \E p \in Ports : \E i \in 1..Len(hist[p].src) : s = hist[p].src[i]
    <3>1. CASE \E p \in Ports : cur[p] # NoSource /\ x = <<p, 0>>
      BY <2>4, <3>1 DEF SourceAt
    <3>2. CASE \E p \in Ports : \E i \in 1..Len(hist[p].src) : x = <<p, i>>
      <4>1. PICK p \in Ports : \E i \in 1..Len(hist[p].src) : x = <<p, i>>
        BY <3>2
      <4>2. PICK i \in 1..Len(hist[p].src) : x = <<p, i>>
        BY <4>1
      <4>3. i # 0
        OBVIOUS
      <4>4. s = hist[p].src[i]
        BY <2>4, <4>2, <4>3 DEF SourceAt
      <4>5. QED
        BY <4>4
    <3>3. QED
      BY <2>4, <3>1, <3>2 DEF Taken
  <2>5. QED
    BY <2>1, <2>2, <2>3, <2>4
<1>4. QED
  BY <1>1, <1>2, <1>3, PTL DEF Spec
=============================================================================

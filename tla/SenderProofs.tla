---------------------------- MODULE SenderProofs ----------------------------
(***************************************************************************)
(* What the operators of Connections and ThreadTransferHistory return      *)
(* (commands, checkpoints, histories and streams of the right types), that *)
(* every step of a sender thread keeps the types, and what it does to the  *)
(* sources: one case for each handler of SenderThread.                     *)
(***************************************************************************)
EXTENDS SenderThread, TLAPS

(* The types of the sender's variables, but for dequeued: that it is a number
   follows with what it counts, in OwnershipProofs. *)
SenderTypes ==
    /\ sState \in [Ports -> SenderStates]
    /\ sErr \in [Ports -> SenderErrors]
    /\ noProgress \in [Ports -> Nat]
    /\ sizeSent \in [Ports -> BOOLEAN]
    /\ cur \in [Ports -> Source \cup {NoSource}]
    /\ sent \in [Ports -> BOOLEAN]
    /\ hist \in [Ports -> History]
    /\ toApply \in [Ports -> Seq(Checkpoint)]
    /\ queue \in SUBSET Source
    /\ aborted \in BOOLEAN
    /\ rejected \in SUBSET Ports
    /\ finished \in BOOLEAN

(* NoSource, which stands for a thread that sends nothing, is not a source. *)
LEMMA NoSourceIsNone == NoSource \notin Source
BY DEF NoSource, Source

(* A command without arguments is a message. *)
LEMMA CmdType ==
    ASSUME NEW c \in Cmds \ {"FILE", "LOCAL_CHECKPOINT"}
    PROVE  Cmd(c) \in Message
BY BlockSizeAssumption DEF Cmd, Message, Parts

(* sendLocalCheckpoint and sendGlobalCheckpoint write messages: a checkpoint
   command with a list of checkpoints is one. *)
LEMMA CheckpointCmdType ==
    ASSUME NEW c \in {"ERR", "LOCAL_CHECKPOINT"}, NEW cks \in Seq(Checkpoint),
           c = "LOCAL_CHECKPOINT" => cks # <<>>
    PROVE  CheckpointCmd(c, cks) \in Message
BY BlockSizeAssumption DEF CheckpointCmd, Cmd, Message, Parts, Cmds

(* The bytes a source still has to send are between none and a whole block. *)
LEMMA SizeOfType ==
    ASSUME NEW s \in Source
    PROVE  SizeOf(s) \in 0..BlockSize
BY BlockSizeAssumption DEF Source, SizeOf

(* sendOneByteSource writes a message: the FILE command of a source is one. *)
LEMMA FileCmdType ==
    ASSUME NEW s \in Source
    PROVE  FileCmd(s) \in Message /\ FileCmd(s).src = s /\ FileCmd(s).got = SizeOf(s)
<1>1. SizeOf(s) \in 0..BlockSize /\ SizeOf(s) <= SizeOf(s) /\ <<>> \in Seq(Checkpoint)
  BY SizeOfType, BlockSizeAssumption
<1>2. QED
  BY <1>1 DEF FileCmd, Message, Parts, Cmds

(* A FILE command carries a source, and at most the bytes it has left. *)
LEMMA FileMessageType ==
    ASSUME NEW m \in Message, m.cmd = "FILE"
    PROVE  m.src \in Source /\ m.got \in 0..SizeOf(m.src)
<1>1. m.src \in Source /\ m.got \in 0..BlockSize /\ m.got <= SizeOf(m.src)
  BY DEF Message
<1>2. SizeOf(m.src) \in 0..BlockSize
  BY <1>1, SizeOfType
<1>3. QED
  BY <1>1, <1>2, BlockSizeAssumption

(* The checkpoint that readLocalCheckPoint takes from its command is one. *)
LEMMA LocalCheckpointType ==
    ASSUME NEW m \in Message, m.cmd = "LOCAL_CHECKPOINT"
    PROVE  m.cks[1] \in Checkpoint
<1>1. m.cks \in Seq(Checkpoint) /\ m.cks # <<>>
  BY DEF Message
<1>2. \A s \in Seq(Checkpoint) : s # <<>> => s[1] \in Checkpoint
  OBVIOUS
<1>3. QED
  BY <1>1, <1>2

(* What a failing connection leaves of a command is still a message. *)
LEMMA CutCommandType ==
    ASSUME NEW m \in Message, NEW c \in CutCommand(m)
    PROVE  c \in Message
<1>1. /\ m.cmd \in Cmds /\ m.src \in Source \cup {NoSource} /\ m.part \in Parts
      /\ m.got \in 0..BlockSize /\ m.cks \in Seq(Checkpoint)
      /\ m = [cmd |-> m.cmd, src |-> m.src, part |-> m.part, got |-> m.got, cks |-> m.cks]
      /\ m.cmd = "FILE" => m.src \in Source /\ m.got <= SizeOf(m.src)
  BY DEF Message
<1>2. CASE m.cmd = "FILE"
  <2>1. CASE c = [m EXCEPT !.part = "HEADER", !.got = 0]
    <3>1. 0 \in 0..BlockSize /\ 0 <= SizeOf(m.src)
      BY <1>1, <1>2, SizeOfType, BlockSizeAssumption
    <3>2. QED
      BY Zenon, <1>1, <1>2, <2>1, <3>1 DEF Message, Parts
  <2>2. CASE \E n \in CutBytes(m) : c = [m EXCEPT !.part = "DATA", !.got = n]
    <3>1. PICK n \in CutBytes(m) : c = [m EXCEPT !.part = "DATA", !.got = n]
      BY Zenon, <2>2
    <3>2. n \in 0..BlockSize /\ n <= SizeOf(m.src)
      BY <1>1, <1>2, SizeOfType, BlockSizeAssumption DEF CutBytes
    <3>3. QED
      BY Zenon, <1>1, <1>2, <3>1, <3>2 DEF Message, Parts
  <2>3. QED
    BY Zenon, <1>2, <2>1, <2>2 DEF CutCommand
<1>3. CASE m.cmd # "FILE"
  <2>1. m.cmd \in {"ERR", "ABORT"} /\ c = [m EXCEPT !.part = "HEADER", !.cks = <<>>]
    BY <1>3 DEF CutCommand
  <2>2. c = [cmd |-> m.cmd, src |-> m.src, part |-> "HEADER", got |-> m.got, cks |-> <<>>]
    BY Zenon, <1>1, <2>1
  <2>3. QED
    <3>1. <<>> \in Seq(Checkpoint)
      OBVIOUS
    <3>2. CASE m.cmd = "ERR"
      BY <1>1, <2>2, <3>1, <3>2 DEF Message, Parts, Cmds
    <3>3. CASE m.cmd = "ABORT"
      BY <1>1, <2>2, <3>1, <3>3 DEF Message, Parts, Cmds
    <3>4. QED
      BY <2>1, <3>2, <3>3
<1>4. QED
  BY <1>2, <1>3

(* What a failing connection leaves of a stream is still a stream. *)
LEMMA CutsType ==
    ASSUME NEW s \in Seq(Message), NEW c \in Cuts(s)
    PROVE  c \in Seq(Message)
<1>1. CASE c \in {SubSeq(s, 1, k) : k \in 0..Len(s)}
  BY <1>1
<1>2. CASE c \in UNION {{Append(SubSeq(s, 1, k - 1), m) : m \in CutCommand(s[k])} : k \in 1..Len(s)}
  <2>1. PICK k \in 1..Len(s) : \E m \in CutCommand(s[k]) : c = Append(SubSeq(s, 1, k - 1), m)
    BY Zenon, <1>2
  <2>2. PICK m \in CutCommand(s[k]) : c = Append(SubSeq(s, 1, k - 1), m)
    BY <2>1
  <2>3. SubSeq(s, 1, k - 1) \in Seq(Message) /\ s[k] \in Message
    OBVIOUS
  <2>4. m \in Message
    BY <2>3, CutCommandType
  <2>5. QED
    BY <2>2, <2>3, <2>4
<1>3. QED
  BY Zenon, <1>1, <1>2 DEF Cuts

(* What a failing connection leaves of a command is that command, and carries
   no other block and no other checkpoint. *)
LEMMA CutCommandKeeps ==
    ASSUME NEW m \in Message, NEW c \in CutCommand(m)
    PROVE  /\ c.cmd = m.cmd /\ c.cmd \in {"FILE", "ERR", "ABORT"}
           /\ c.src = m.src /\ c.part # "WHOLE"
           /\ c.cks = m.cks \/ c.cks = <<>>
BY Zenon DEF CutCommand, Message

(* What a failing connection leaves of a stream is a beginning of it, of which
   only the last command may be cut. *)
LEMMA CutsPrefix ==
    ASSUME NEW s \in Seq(Message), NEW c \in Cuts(s)
    PROVE  /\ Len(c) <= Len(s)
           /\ \A k \in 1..Len(c) :
                 /\ c[k].cmd = s[k].cmd /\ c[k].src = s[k].src
                 /\ c[k].cks = s[k].cks \/ c[k].cks = <<>>
                 /\ k < Len(c) \/ c[k].part = "WHOLE" \/ c[k].cmd \notin {"FILE", "ERR", "ABORT"}
                      => c[k] = s[k]
<1>1. ASSUME NEW k \in 0..Len(s), c = SubSeq(s, 1, k)
      PROVE  Len(c) <= Len(s) /\ \A j \in 1..Len(c) : c[j] = s[j]
  BY <1>1
<1>2. ASSUME NEW k \in 1..Len(s), NEW m \in CutCommand(s[k]), c = Append(SubSeq(s, 1, k - 1), m)
      PROVE  /\ Len(c) <= Len(s)
             /\ \A j \in 1..Len(c) :
                   /\ c[j].cmd = s[j].cmd /\ c[j].src = s[j].src
                   /\ c[j].cks = s[j].cks \/ c[j].cks = <<>>
                   /\ j < Len(c) \/ c[j].part = "WHOLE" \/ c[j].cmd \notin {"FILE", "ERR", "ABORT"}
                        => c[j] = s[j]
  <2>1. s[k] \in Message
    OBVIOUS
  <2>2. /\ m \in Message /\ m.cmd = s[k].cmd /\ m.cmd \in {"FILE", "ERR", "ABORT"}
        /\ m.src = s[k].src /\ m.part # "WHOLE" /\ (m.cks = s[k].cks \/ m.cks = <<>>)
    BY <2>1, CutCommandType, CutCommandKeeps
  <2>3. /\ SubSeq(s, 1, k - 1) \in Seq(Message) /\ Len(SubSeq(s, 1, k - 1)) = k - 1
        /\ \A j \in 1..(k - 1) : SubSeq(s, 1, k - 1)[j] = s[j]
    OBVIOUS
  <2>4. PICK t \in Seq(Message) :
           t = SubSeq(s, 1, k - 1) /\ Len(t) = k - 1 /\ \A j \in 1..(k - 1) : t[j] = s[j]
    BY Zenon, <2>3
  <2>5. Len(c) = k /\ c[k] = m /\ \A j \in 1..(k - 1) : c[j] = s[j]
    BY <1>2, <2>2, <2>4
  <2>6. QED
    BY <2>2, <2>5
<1>3. CASE c \in {SubSeq(s, 1, k) : k \in 0..Len(s)}
  BY <1>1, <1>3
<1>4. CASE c \in UNION {{Append(SubSeq(s, 1, k - 1), m) : m \in CutCommand(s[k])} : k \in 1..Len(s)}
  <2>1. PICK k \in 1..Len(s) : \E m \in CutCommand(s[k]) : c = Append(SubSeq(s, 1, k - 1), m)
    BY Zenon, <1>4
  <2>2. PICK m \in CutCommand(s[k]) : c = Append(SubSeq(s, 1, k - 1), m)
    BY <2>1
  <2>3. QED
    BY Zenon, <1>2, <2>2
<1>5. QED
  BY Zenon, <1>3, <1>4 DEF Cuts

-----------------------------------------------------------------------------
(* The default constructor of Checkpoint makes a checkpoint. *)
LEMMA NewCheckpointType ==
    ASSUME NEW p \in Ports
    PROVE  NewCheckpoint(p) \in Checkpoint
BY BlockSizeAssumption DEF NewCheckpoint, Checkpoint

(* The fields of a checkpoint have the types of struct Checkpoint, and the
   bytes it reports lie inside the block. *)
LEMMA CheckpointType ==
    ASSUME NEW ck \in Checkpoint
    PROVE  /\ ck.port \in Ports
           /\ ck.numBlocks \in Nat
           /\ ck.off \in 0..BlockSize
           /\ ck.bytes \in 0..BlockSize
           /\ ck.off + ck.bytes <= BlockSize
BY DEF Checkpoint

(* resetLastBlockDetails keeps a checkpoint a checkpoint. *)
LEMMA ResetType ==
    ASSUME NEW ck \in Checkpoint
    PROVE  ResetLastBlockDetails(ck) \in Checkpoint
BY NewCheckpointType, CheckpointType DEF ResetLastBlockDetails, Checkpoint

(* setLastBlockDetails keeps a checkpoint a checkpoint when the bytes it sets
   are no more than the source had to send. *)
LEMMA SetLastBlockType ==
    ASSUME NEW ck \in Checkpoint, NEW s \in Source, NEW n \in 0..SizeOf(s)
    PROVE  SetLastBlockDetails(ck, s, n) \in Checkpoint
<1>1. /\ s.blk \in Blocks /\ s.off \in 0..BlockSize /\ n \in 0..BlockSize
      /\ s.off + n <= BlockSize
  BY BlockSizeAssumption DEF Source, SizeOf
<1>2. QED
  BY <1>1, CheckpointType DEF SetLastBlockDetails, Checkpoint

(* markSourceAsFailed moves the offset of a source inside its block and never
   changes the block: a checkpoint reports no bytes beyond the end. *)
LEMMA MarkSourceAsFailedType ==
    ASSUME NEW s \in Source, NEW ck \in Checkpoint \cup {NoCheckpoint}
    PROVE  MarkSourceAsFailed(s, ck) \in Source /\ MarkSourceAsFailed(s, ck).blk = s.blk
<1>1. CASE ck # NoCheckpoint /\ ck.blk = s.blk /\ ck.off = s.off
  <2>1. s.off + ck.bytes \in 0..BlockSize
    BY <1>1, CheckpointType, BlockSizeAssumption
  <2>2. QED
    BY <1>1, <2>1 DEF MarkSourceAsFailed, Source
<1>2. CASE ~(ck # NoCheckpoint /\ ck.blk = s.blk /\ ck.off = s.off)
  BY <1>2 DEF MarkSourceAsFailed
<1>3. QED
  BY <1>1, <1>2

(* The fields of a history have the types of class ThreadTransferHistory. *)
LEMMA HistoryType ==
    ASSUME NEW h \in History
    PROVE  /\ h.src \in Seq(Source)
           /\ h.acked \in Nat
           /\ h.last \in Checkpoint \cup {NoCheckpoint}
           /\ h.global \in BOOLEAN
           /\ h.inUse \in BOOLEAN
BY DEF History

(* setCheckpointAndReturnToQueue leaves a history, and what it returns to the
   queue are sources. *)
LEMMA SetCheckpointType ==
    ASSUME NEW h \in History, NEW ck \in Checkpoint, NEW g \in BOOLEAN
    PROVE  /\ SetCheckpoint(h, ck, g) \in History
           /\ SourcesToReturn(h, ck, g) \subseteq Source
<1>1. CASE SetCheckpointCode(h, ck, g) = "INVALID_CHECKPOINT"
  BY <1>1 DEF SetCheckpoint, SourcesToReturn
<1>2. CASE SetCheckpointCode(h, ck, g) # "INVALID_CHECKPOINT"
  <2>1. h.src \in Seq(Source) /\ ck.numBlocks \in Nat
    BY HistoryType, CheckpointType
  <2>2. ck.numBlocks <= Len(h.src)
    BY <1>2, <2>1 DEF SetCheckpointCode
  <2>3. SubSeq(h.src, 1, ck.numBlocks) \in Seq(Source)
    BY <2>1, <2>2
  <2>4. SetCheckpoint(h, ck, g) \in History
    BY Zenon, <1>2, <2>1, <2>3 DEF SetCheckpoint, History
  <2>5. ASSUME NEW i \in ck.numBlocks + 1 .. Len(h.src)
        PROVE  MarkSourceAsFailed(h.src[i], IF i = ck.numBlocks + 1 THEN ck ELSE NoCheckpoint)
                 \in Source
    <3>1. h.src[i] \in Source
      BY <2>1
    <3>2. QED
      BY <3>1, MarkSourceAsFailedType
  <2>6. QED
    BY <1>2, <2>4, <2>5 DEF SourcesToReturn
<1>3. QED
  BY <1>1, <1>2

(* markAllAcknowledged and markNotInUse leave a history with the same sources
   and the same last checkpoint. *)
LEMMA HistoryUpdateType ==
    ASSUME NEW h \in History
    PROVE  /\ MarkAllAcknowledged(h) \in History /\ MarkAllAcknowledged(h).src = h.src
           /\ MarkAllAcknowledged(h).last = h.last
           /\ MarkNotInUse(h) \in History /\ MarkNotInUse(h).src = h.src
           /\ MarkNotInUse(h).last = h.last
<1>1. Len(h.src) \in Nat
  BY HistoryType
<1>2. QED
  BY Zenon, <1>1 DEF MarkAllAcknowledged, MarkNotInUse, History

(* addSource leaves a history, and what it returns to the queue is a source. *)
LEMMA AddSourceType ==
    ASSUME NEW h \in History, NEW s \in Source
    PROVE  /\ AddSource(h, s) \in History
           /\ SourceToReturn(h, s) \subseteq Source
<1>1. h.src \in Seq(Source) /\ Append(h.src, s) \in Seq(Source)
  BY HistoryType
<1>2. AddSource(h, s) \in History
  BY Zenon, <1>1 DEF AddSource, History
<1>3. MarkSourceAsFailed(s, h.last) \in Source
  BY HistoryType, MarkSourceAsFailedType
<1>4. QED
  BY <1>2, <1>3 DEF SourceToReturn

(* The checkpoint returnUnackedSourcesToQueue makes up is a checkpoint. *)
LEMMA UnackedCheckpointType ==
    ASSUME NEW h \in History, NEW p \in Ports
    PROVE  UnackedCheckpoint(h, p) \in Checkpoint
<1>1. h.acked \in Nat
  BY HistoryType
<1>2. UnackedCheckpoint(h, p) = [NewCheckpoint(p) EXCEPT !.numBlocks = h.acked]
  BY DEF UnackedCheckpoint
<1>3. QED
  BY <1>1, <1>2, NewCheckpointType DEF Checkpoint

(* returnUnackedSourcesToQueue leaves a history, and what it returns to the
   queue are sources. *)
LEMMA ReturnUnackedType ==
    ASSUME NEW h \in History, NEW p \in Ports
    PROVE  /\ ReturnUnackedSources(h, p) \in History
           /\ UnackedSources(h, p) \subseteq Source
BY Zenon, UnackedCheckpointType, SetCheckpointType DEF ReturnUnackedSources, UnackedSources

-----------------------------------------------------------------------------
(* The values of toR and toS. *)
Streams == [Ports -> [Conns -> Seq(Message)]]

(* Replacing the stream of one connection leaves streams. *)
LEMMA StreamUpdate ==
    ASSUME NEW f \in Streams, NEW p \in Ports, NEW i, NEW s \in Seq(Message)
    PROVE  [f EXCEPT ![p][i] = s] \in Streams
BY Zenon DEF Streams

(* Every connection of a port has a stream of messages. *)
LEMMA StreamOf ==
    ASSUME NEW f \in Streams, NEW p \in Ports, NEW i \in Conns
    PROVE  f[p][i] \in Seq(Message)
BY DEF Streams

(* A write of the sender, whether it succeeds or not, leaves streams. *)
LEMMA SenderWriteType ==
    ASSUME NetTypeOK, NEW p \in Ports, NEW m \in Message, sConn[p] # 0,
           SenderWriteOk(p, m) \/ SenderWriteFails(p)
    PROVE  toR' \in Streams
<1>1. toR \in Streams /\ sConn[p] \in Conns
  BY ConnectionsAssumption DEF NetTypeOK, Conns, Streams
<1>2. Append(toR[p][sConn[p]], m) \in Seq(Message)
  BY <1>1, StreamOf
<1>3. [toR EXCEPT ![p][sConn[p]] = Append(toR[p][sConn[p]], m)] \in Streams
  BY Zenon, <1>1, <1>2, StreamUpdate
<1>4. QED
  BY <1>1, <1>3 DEF SenderWriteOk, SenderWriteFails

(* A write of the receiver, whether it succeeds or not, leaves streams. *)
LEMMA ReceiverWriteType ==
    ASSUME NetTypeOK, NEW p \in Ports, NEW m \in Message, rConn[p] # 0,
           ReceiverWriteOk(p, m) \/ ReceiverWriteFails(p)
    PROVE  toS' \in Streams
<1>1. toS \in Streams /\ rConn[p] \in Conns
  BY ConnectionsAssumption DEF NetTypeOK, Conns, Streams
<1>2. Append(toS[p][rConn[p]], m) \in Seq(Message)
  BY <1>1, StreamOf
<1>3. [toS EXCEPT ![p][rConn[p]] = Append(toS[p][rConn[p]], m)] \in Streams
  BY Zenon, <1>1, <1>2, StreamUpdate
<1>4. QED
  BY <1>1, <1>3 DEF ReceiverWriteOk, ReceiverWriteFails

(* What the sender reads is a message, and reading it leaves streams. *)
LEMMA SenderReadType ==
    ASSUME NetTypeOK, NEW p \in Ports, sConn[p] # 0, toS[p][sConn[p]] # <<>>
    PROVE  /\ Head(toS[p][sConn[p]]) \in Message
           /\ SenderConsumes(p) => toS' \in Streams
<1>1. toS \in Streams /\ sConn[p] \in Conns
  BY ConnectionsAssumption DEF NetTypeOK, Conns, Streams
<1>2. toS[p][sConn[p]] \in Seq(Message)
  BY <1>1, StreamOf
<1>3. Head(toS[p][sConn[p]]) \in Message /\ Tail(toS[p][sConn[p]]) \in Seq(Message)
  BY <1>2
<1>4. [toS EXCEPT ![p][sConn[p]] = Tail(toS[p][sConn[p]])] \in Streams
  BY Zenon, <1>1, <1>3, StreamUpdate
<1>5. QED
  BY <1>3, <1>4 DEF SenderConsumes

(* What the receiver reads is a message, and reading it leaves streams. *)
LEMMA ReceiverReadType ==
    ASSUME NetTypeOK, NEW p \in Ports, rConn[p] # 0, toR[p][rConn[p]] # <<>>
    PROVE  /\ Head(toR[p][rConn[p]]) \in Message
           /\ ReceiverConsumes(p) => toR' \in Streams
<1>1. toR \in Streams /\ rConn[p] \in Conns
  BY ConnectionsAssumption DEF NetTypeOK, Conns, Streams
<1>2. toR[p][rConn[p]] \in Seq(Message)
  BY <1>1, StreamOf
<1>3. Head(toR[p][rConn[p]]) \in Message /\ Tail(toR[p][rConn[p]]) \in Seq(Message)
  BY <1>2
<1>4. [toR EXCEPT ![p][rConn[p]] = Tail(toR[p][rConn[p]])] \in Streams
  BY Zenon, <1>1, <1>3, StreamUpdate
<1>5. QED
  BY <1>3, <1>4 DEF ReceiverConsumes

(* Closing its connection, the receiver drops what it has not read. *)
LEMMA ReceiverClosesType ==
    ASSUME NetTypeOK, NEW p \in Ports, ReceiverCloses(p)
    PROVE  toR' \in Streams /\ rOpen' \in [Ports -> BOOLEAN]
<1>1. toR \in Streams /\ <<>> \in Seq(Message)
  BY DEF NetTypeOK, Streams
<1>2. QED
  BY Zenon, <1>1, StreamUpdate DEF ReceiverCloses, NetTypeOK

-----------------------------------------------------------------------------
(* Leaving the loop of SenderThread::start keeps the histories histories. *)
LEMMA SenderEndsType ==
    ASSUME NEW p \in Ports, NEW err, NEW h \in [Ports -> History], SenderEnds(p, err, h)
    PROVE  hist' \in [Ports -> History]
BY HistoryUpdateType DEF SenderEnds

(* Every handler of a sender thread keeps the types of the connections and of
   the sender, and what the handlers rely on: a source at hand exactly between
   sendOneByteSource and addSource, a checkpoint to apply while waiting for
   its history, a connection in every state after CONNECT. *)
LEMMA SenderStepType ==
    ASSUME NetTypeOK, SenderTypes, SenderInv, NEW p \in Ports, SenderStep(p)
    PROVE  NetTypeOK' /\ SenderTypes' /\ SenderInv'
<1>1. CASE AbortThread(p)
  <2>1. hist' \in [Ports -> History]
    BY <1>1, HistoryUpdateType, SenderEndsType
       DEF AbortThread, SenderTypes
  <2>2. NetTypeOK'
    BY <1>1, <2>1
       DEF AbortThread, SenderEnds, SenderMoves, NetTypeOK, Streams
  <2>3. SenderTypes'
    BY <1>1, <2>1
       DEF AbortThread, SenderEnds, SenderMoves, SenderTypes, SenderStates, SenderErrors
  <2>4. SenderInv'
    BY <1>1, <2>1
       DEF AbortThread, SenderEnds, SenderMoves, SenderInv, SenderTypes, NetTypeOK
  <2>5. QED
    BY <2>2, <2>3, <2>4
<1>2. CASE ConnectToReceiver(p)
  <2>1. NetTypeOK'
    BY <1>2, ConnectionsAssumption
       DEF ConnectToReceiver, SenderAt, Connect, SenderMoves, NetTypeOK, Streams
  <2>2. SenderTypes'
    BY <1>2, ConnectionsAssumption
       DEF ConnectToReceiver, SenderAt, Connect, SenderMoves, SenderTypes, SenderStates, SenderErrors
  <2>3. SenderInv'
    <3>1. \E t \in 0..1 : sConn' = [sConn EXCEPT ![p] = sConn[p] + t + 1]
      BY ZenonT(30), <1>2 DEF ConnectToReceiver, Connect
    <3>2. sConn'[p] # 0 /\ \A q \in Ports \ {p} : sConn'[q] = sConn[q]
      BY <3>1, ConnectionsAssumption DEF NetTypeOK
    <3>3. /\ \E st \in {"READ_LOCAL_CHECKPOINT", "SEND_SETTINGS"} : sState' = [sState EXCEPT ![p] = st]
          /\ sState[p] = "CONNECT"
          /\ UNCHANGED <<cur, toApply>>
      BY ZenonT(30), <1>2 DEF ConnectToReceiver, SenderAt, SenderMoves
    <3>4. QED
      BY ZenonT(30), <3>2, <3>3 DEF SenderInv, SenderTypes
  <2>4. QED
    BY <2>1, <2>2, <2>3
<1>3. CASE GiveUpConnecting(p)
  <2>1. hist' \in [Ports -> History]
    BY <1>3, HistoryUpdateType, SenderEndsType
       DEF GiveUpConnecting, SenderTypes
  <2>2. NetTypeOK'
    BY ZenonT(30), <1>3, <2>1
       DEF GiveUpConnecting, SenderAt, SenderEnds, SenderMoves, NetTypeOK, Streams
  <2>3. SenderTypes'
    BY ZenonT(30), <1>3, <2>1
       DEF GiveUpConnecting, SenderAt, SenderEnds, SenderMoves, SenderTypes, SenderStates, SenderErrors
  <2>4. SenderInv'
    BY ZenonT(30), <1>3, <2>1
       DEF GiveUpConnecting, SenderAt, SenderEnds, SenderMoves, SenderInv, SenderTypes, NetTypeOK
  <2>5. QED
    BY <2>2, <2>3, <2>4
<1>4. CASE ReadLocalCheckPoint(p)
  <2> DEFINE ck == Head(toS[p][sConn[p]]).cks[1]
  <2>1. sConn[p] # 0
    BY ZenonT(30), <1>4 DEF ReadLocalCheckPoint, SenderAt, SenderInv
  <2>2. /\ Head(toS[p][sConn[p]]) \in Message
        /\ Head(toS[p][sConn[p]]).cmd = "LOCAL_CHECKPOINT"
        /\ toS' \in Streams
    BY ZenonT(30), <1>4, <2>1, SenderReadType DEF ReadLocalCheckPoint, SenderReads
  <2>3. ck \in Checkpoint /\ ck.numBlocks \in Nat
    BY Zenon, <2>2, LocalCheckpointType, CheckpointType
  <2>4. hist[p] \in History /\ Len(hist[p].src) \in Nat
    BY HistoryType DEF SenderTypes
  <2>5. /\ SetCheckpoint(hist[p], ck, FALSE) \in History
        /\ SourcesToReturn(hist[p], ck, FALSE) \subseteq Source
    BY ZenonT(30), <2>3, <2>4, SetCheckpointType
  <2> HIDE DEF ck
  <2>6. CASE SetCheckpointCode(hist[p], ck, FALSE) = "INVALID_CHECKPOINT"
    <3>1. /\ SenderEnds(p, "PROTOCOL_ERROR", hist)
          /\ rejected' = rejected \cup {p}
          /\ UNCHANGED <<noProgress, queue, dequeued>>
      BY ZenonT(30), <1>4, <2>6 DEF ReadLocalCheckPoint, ck
    <3>2. hist' \in [Ports -> History]
      BY <3>1, SenderEndsType DEF SenderTypes
    <3>3. NetTypeOK'
      BY Zenon, <1>4, <2>2, <3>1 DEF ReadLocalCheckPoint, SenderEnds, NetTypeOK, Streams
    <3>4. SenderTypes'
      BY ZenonT(30), <1>4, <3>1, <3>2
         DEF ReadLocalCheckPoint, SenderEnds, SenderMoves, SenderTypes, SenderStates, SenderErrors
    <3>5. SenderInv'
      BY ZenonT(30), <1>4, <3>1
         DEF ReadLocalCheckPoint, SenderEnds, SenderMoves, SenderInv, SenderTypes, SenderAt
    <3>6. QED
      BY <3>3, <3>4, <3>5
  <2>7. CASE SetCheckpointCode(hist[p], ck, FALSE) # "INVALID_CHECKPOINT"
    <3>1. /\ SenderMoves(p, "SEND_SETTINGS", sErr[p])
          /\ hist' = [hist EXCEPT ![p] = SetCheckpoint(hist[p], ck, FALSE)]
          /\ ReturnToQueue(SourcesToReturn(hist[p], ck, FALSE), Len(hist[p].src) - ck.numBlocks)
          /\ UNCHANGED <<sOpen, rejected>>
      BY ZenonT(30), <1>4, <2>7 DEF ReadLocalCheckPoint, ck
    <3>a. noProgress' =
            [noProgress EXCEPT ![p] = IF SetCheckpointCode(hist[p], ck, FALSE) = "NO_PROGRESS"
                                      THEN noProgress[p] + 1 ELSE 0]
      BY ZenonT(30), <1>4, <2>7 DEF ReadLocalCheckPoint, ck
    <3>b. noProgress' \in [Ports -> Nat]
      <4>1. noProgress[p] + 1 \in Nat
        BY DEF SenderTypes
      <4>2. CASE SetCheckpointCode(hist[p], ck, FALSE) = "NO_PROGRESS"
        BY <3>a, <4>1, <4>2 DEF SenderTypes
      <4>3. CASE SetCheckpointCode(hist[p], ck, FALSE) # "NO_PROGRESS"
        BY <3>a, <4>3 DEF SenderTypes
      <4>4. QED
        BY ZenonT(30), <4>2, <4>3
    <3>2. hist' \in [Ports -> History]
      BY ZenonT(30), <2>5, <3>1 DEF SenderTypes
    <3>3. queue' \in SUBSET Source
      BY ZenonT(30), <2>5, <3>1 DEF ReturnToQueue, SenderTypes
    <3>4. NetTypeOK'
      BY ZenonT(30), <1>4, <2>2, <3>1 DEF ReadLocalCheckPoint, NetTypeOK, Streams
    <3>5. SenderTypes'
      BY ZenonT(30), <1>4, <3>1, <3>2, <3>3, <3>b
         DEF ReadLocalCheckPoint, SenderMoves, SenderTypes, SenderStates, SenderErrors
    <3>6. SenderInv'
      BY ZenonT(30), <1>4, <3>1
         DEF ReadLocalCheckPoint, SenderMoves, SenderInv, SenderTypes, SenderAt
    <3>7. QED
      BY <3>4, <3>5, <3>6
  <2>8. QED
    BY ZenonT(30), <2>6, <2>7
<1>5. CASE LocalCheckPointLost(p)
  <2>1. NetTypeOK'
    BY <1>5
       DEF LocalCheckPointLost, SenderAt, Reconnect, SenderMoves, NetTypeOK, Streams
  <2>2. SenderTypes'
    <3>1. noProgress' \in [Ports -> Nat]
      BY <1>5 DEF LocalCheckPointLost, SenderTypes
    <3>2. sState' \in [Ports -> SenderStates] /\ sErr' \in [Ports -> SenderErrors]
      BY <1>5 DEF LocalCheckPointLost, Reconnect, SenderMoves, SenderTypes, SenderStates, SenderErrors
    <3>3. QED
      BY <1>5, <3>1, <3>2 DEF LocalCheckPointLost, SenderTypes
  <2>3. SenderInv'
    BY <1>5
       DEF LocalCheckPointLost, SenderAt, Reconnect, SenderMoves, SenderInv, SenderTypes, NetTypeOK
  <2>4. QED
    BY <2>1, <2>2, <2>3
<1>6. CASE SendSettings(p)
  <2>1. sConn[p] # 0
    BY <1>6
       DEF SendSettings, SenderAt, SenderInv
  <2>m. Cmd("SETTINGS") \in Message
    BY CmdType DEF Cmds
  <2>2. toR' \in Streams
    BY Zenon, <1>6, <2>1, <2>m, SenderWriteType DEF SendSettings
  <2>3. NetTypeOK'
    BY ZenonT(30), <1>6, <2>1, <2>2
       DEF SendSettings, SenderAt, Reconnect, SenderMoves, NetTypeOK, Streams
  <2>4. SenderTypes'
    BY ZenonT(30), <1>6, <2>1, <2>2
       DEF SendSettings, SenderAt, Reconnect, SenderMoves, SenderTypes, SenderStates, SenderErrors
  <2>5. SenderInv'
    BY ZenonT(30), <1>6, <2>1, <2>2
       DEF SendSettings, SenderAt, Reconnect, SenderMoves, SenderInv, SenderTypes, NetTypeOK
  <2>6. QED
    BY <2>3, <2>4, <2>5
<1>7. CASE SendSizeCmd(p)
  <2>1. sConn[p] # 0
    BY <1>7
       DEF SendSizeCmd, SenderAt, SenderInv
  <2>m. Cmd("SIZE") \in Message
    BY CmdType DEF Cmds
  <2>2. toR' \in Streams
    BY Zenon, <1>7, <2>1, <2>m, SenderWriteType DEF SendSizeCmd
  <2>3. NetTypeOK'
    BY <1>7, <2>1, <2>2
       DEF SendSizeCmd, SenderAt, SenderMoves, NetTypeOK, Streams
  <2>4. SenderTypes'
    BY ZenonT(30), <1>7, <2>1, <2>2
       DEF SendSizeCmd, SenderAt, SenderMoves, SenderTypes, SenderStates, SenderErrors
  <2>5. SenderInv'
    BY ZenonT(30), <1>7, <2>1, <2>2
       DEF SendSizeCmd, SenderAt, SenderMoves, SenderInv, SenderTypes, NetTypeOK
  <2>6. QED
    BY <2>3, <2>4, <2>5
<1>8. CASE SendOneByteSource(p)
  <2>a. sConn[p] # 0
    BY <1>8 DEF SendOneByteSource, SenderAt, SenderInv
  <2>b. sConn[p] \in Conns
    BY <2>a, ConnectionsAssumption DEF NetTypeOK, Conns
  <2>c. toR \in Streams
    BY DEF NetTypeOK, Streams
  <2>1. sConn[p] # 0 /\ sConn[p] \in Conns /\ toR \in Streams
    BY <2>a, <2>b, <2>c
  <2>2. PICK s \in queue :
          /\ queue' = queue \ {s}
          /\ cur' = [cur EXCEPT ![p] = s]
          /\ \/ /\ SenderWriteOk(p, FileCmd(s))
                /\ sent' = [sent EXCEPT ![p] = TRUE]
                /\ UNCHANGED <<up, breaks>>
             \/ /\ SenderWriteFails(p)
                /\ sent' = [sent EXCEPT ![p] = FALSE]
                /\ UNCHANGED <<up, breaks>>
             \/ /\ breaks < MaxBreaks
                /\ breaks' = breaks + 1
                /\ up' = [up EXCEPT ![p][sConn[p]] = FALSE]
                /\ \E m \in CutCommand(FileCmd(s)) :
                      toR' = [toR EXCEPT ![p][sConn[p]] = Append(toR[p][sConn[p]], m)]
                /\ sent' = [sent EXCEPT ![p] = FALSE]
    BY ZenonT(30), <1>8 DEF SendOneByteSource
  <2>3. s \in Source /\ FileCmd(s) \in Message
    BY <2>2, FileCmdType DEF SenderTypes
  <2>4. toR' \in Streams
    <3>1. CASE SenderWriteOk(p, FileCmd(s)) \/ SenderWriteFails(p)
      BY <2>1, <2>3, <3>1, SenderWriteType
    <3>2. CASE \E m \in CutCommand(FileCmd(s)) :
                 toR' = [toR EXCEPT ![p][sConn[p]] = Append(toR[p][sConn[p]], m)]
      <4>1. PICK m \in CutCommand(FileCmd(s)) :
               toR' = [toR EXCEPT ![p][sConn[p]] = Append(toR[p][sConn[p]], m)]
        BY ZenonT(30), <3>2
      <4>2. m \in Message
        BY <2>3, CutCommandType
      <4>3. Append(toR[p][sConn[p]], m) \in Seq(Message)
        <5>1. toR[p][sConn[p]] \in Seq(Message)
          BY <2>1, StreamOf
        <5>2. QED
          BY <4>2, <5>1
      <4>4. QED
        BY ZenonT(30), <2>1, <4>1, <4>3, StreamUpdate
    <3>3. QED
      BY <2>2, <3>1, <3>2
  <2>5. up' \in [Ports -> [Conns -> BOOLEAN]] /\ breaks' \in 0..MaxBreaks
    <3>1. CASE UNCHANGED <<up, breaks>>
      BY <3>1 DEF NetTypeOK
    <3>2. CASE /\ breaks < MaxBreaks
               /\ breaks' = breaks + 1
               /\ up' = [up EXCEPT ![p][sConn[p]] = FALSE]
      <4>1. breaks' \in 0..MaxBreaks
        BY <3>2, ConnectionsAssumption DEF NetTypeOK
      <4>2. up' = [up EXCEPT ![p] = [up[p] EXCEPT ![sConn[p]] = FALSE]]
        BY <3>2
      <4>3. up' \in [Ports -> [Conns -> BOOLEAN]]
        BY ZenonT(30), <4>2 DEF NetTypeOK
      <4>4. QED
        BY <4>1, <4>3
    <3>3. QED
      BY <2>2, <3>1, <3>2
  <2>6. NetTypeOK'
    BY <1>8, <2>4, <2>5 DEF SendOneByteSource, NetTypeOK, Streams
  <2>7. sent' \in [Ports -> BOOLEAN] /\ cur' \in [Ports -> Source \cup {NoSource}]
    BY ZenonT(30), <2>2, <2>3 DEF SenderTypes
  <2>d. queue' \in SUBSET Source
    BY <2>2 DEF SenderTypes
  <2>8. SenderTypes'
    BY <1>8, <2>d, <2>7 DEF SendOneByteSource, SenderMoves, SenderTypes, SenderStates, SenderErrors
  <2>9. SenderInv'
    BY ZenonT(30), <1>8, <2>1, <2>2, <2>3, NoSourceIsNone
       DEF SendOneByteSource, SenderMoves, SenderInv, SenderTypes
  <2>10. QED
    BY <2>6, <2>8, <2>9
<1>9. CASE AddSourceToHistory(p)
  <2>1. cur[p] \in Source /\ hist[p] \in History
    BY <1>9 DEF AddSourceToHistory, SenderInv, SenderTypes
  <2>2. /\ AddSource(hist[p], cur[p]) \in History
        /\ SourceToReturn(hist[p], cur[p]) \subseteq Source
    BY <2>1, AddSourceType
  <2>3. [hist EXCEPT ![p] = AddSource(hist[p], cur[p])] \in [Ports -> History]
    BY <2>2 DEF SenderTypes
  <2>4. CASE hist[p].global
    <3>1. /\ SenderEnds(p, "CONN_ERROR", [hist EXCEPT ![p] = AddSource(hist[p], cur[p])])
          /\ ReturnToQueue(SourceToReturn(hist[p], cur[p]), 1)
      BY Zenon, <1>9, <2>4 DEF AddSourceToHistory
    <3>2. hist' \in [Ports -> History]
      BY ZenonT(30), <2>3, <3>1, SenderEndsType
    <3>3. queue' \in SUBSET Source
      BY <2>2, <3>1 DEF ReturnToQueue, SenderTypes
    <3>4. NetTypeOK'
      BY ZenonT(30), <1>9, <3>1 DEF AddSourceToHistory, SenderEnds, NetTypeOK
    <3>5. SenderTypes'
      BY ZenonT(30), <1>9, <3>1, <3>2, <3>3
         DEF AddSourceToHistory, SenderEnds, SenderMoves, SenderTypes, SenderStates, SenderErrors
    <3>6. SenderInv'
      BY ZenonT(30), <1>9, <3>1
         DEF AddSourceToHistory, SenderEnds, SenderMoves, SenderInv, SenderTypes
    <3>7. QED
      BY <3>4, <3>5, <3>6
  <2>5. CASE ~hist[p].global
    <3>1. /\ SenderMoves(p, IF sent[p] THEN "SEND_BLOCKS" ELSE "CHECK_FOR_ABORT",
                            IF sent[p] THEN sErr[p] ELSE "SOCKET_WRITE_ERROR")
          /\ hist' = [hist EXCEPT ![p] = AddSource(hist[p], cur[p])]
          /\ UNCHANGED <<queue, dequeued, sOpen>>
      BY ZenonT(30), <1>9, <2>5 DEF AddSourceToHistory
    <3>2. NetTypeOK'
      BY ZenonT(30), <1>9, <3>1 DEF AddSourceToHistory, NetTypeOK
    <3>3. SenderTypes'
      BY <1>9, <2>3, <3>1
         DEF AddSourceToHistory, SenderMoves, SenderTypes, SenderStates, SenderErrors
    <3>4. SenderInv'
      BY <1>9, <3>1
         DEF AddSourceToHistory, SenderMoves, SenderInv, SenderTypes
    <3>5. QED
      BY <3>2, <3>3, <3>4
  <2>6. QED
    BY <2>4, <2>5
<1>10. CASE SendDoneCmd(p)
  <2>1. sConn[p] # 0
    BY ZenonT(30), <1>10
       DEF SendDoneCmd, SenderAt, SenderInv
  <2>m. Cmd("DONE") \in Message
    BY CmdType DEF Cmds
  <2>2. toR' \in Streams
    BY ZenonT(30), <1>10, <2>1, <2>m, SenderWriteType DEF SendDoneCmd
  <2>3. NetTypeOK'
    BY <1>10, <2>1, <2>2
       DEF SendDoneCmd, SenderAt, SenderMoves, NetTypeOK, Streams
  <2>4. SenderTypes'
    BY ZenonT(30), <1>10, <2>1, <2>2
       DEF SendDoneCmd, SenderAt, SenderMoves, SenderTypes, SenderStates, SenderErrors
  <2>5. SenderInv'
    BY ZenonT(30), <1>10, <2>1, <2>2
       DEF SendDoneCmd, SenderAt, SenderMoves, SenderInv, SenderTypes, NetTypeOK
  <2>6. QED
    BY <2>3, <2>4, <2>5
<1>11. CASE CheckForAbort(p)
  <2>1. NetTypeOK'
    BY <1>11
       DEF CheckForAbort, SenderAt, Reconnect, SenderMoves, NetTypeOK, Streams
  <2>2. SenderTypes'
    BY Zenon, <1>11
       DEF CheckForAbort, SenderAt, Reconnect, SenderMoves, SenderTypes, SenderStates, SenderErrors
  <2>3. SenderInv'
    BY Zenon, <1>11
       DEF CheckForAbort, SenderAt, Reconnect, SenderMoves, SenderInv, SenderTypes, NetTypeOK
  <2>4. QED
    BY <2>1, <2>2, <2>3
<1>12. CASE ProcessAbortCmd(p)
  <2>1. hist' \in [Ports -> History]
    BY <1>12, HistoryUpdateType, SenderEndsType
       DEF ProcessAbortCmd, SenderTypes
  <2>2. sConn[p] # 0
    BY ZenonT(30), <1>12, <2>1
       DEF ProcessAbortCmd, SenderAt, SenderInv
  <2>3. toS' \in Streams
    BY Zenon, <1>12, <2>1, <2>2, SenderReadType
       DEF ProcessAbortCmd, SenderReads
  <2>4. NetTypeOK'
    BY <1>12, <2>1, <2>2, <2>3
       DEF ProcessAbortCmd, SenderAt, SenderEnds, SenderMoves, NetTypeOK, Streams
  <2>5. SenderTypes'
    BY <1>12, <2>1, <2>2, <2>3
       DEF ProcessAbortCmd, SenderAt, SenderEnds, SenderMoves, SenderTypes, SenderStates, SenderErrors
  <2>6. SenderInv'
    BY Zenon, <1>12, <2>1, <2>2, <2>3
       DEF ProcessAbortCmd, SenderAt, SenderEnds, SenderMoves, SenderInv, SenderTypes, NetTypeOK
  <2>7. QED
    BY <2>4, <2>5, <2>6
<1>13. CASE ReceiverCmdLost(p)
  <2>1. NetTypeOK'
    BY <1>13
       DEF ReceiverCmdLost, SenderAt, Reconnect, SenderMoves, NetTypeOK, Streams
  <2>2. SenderTypes'
    BY <1>13
       DEF ReceiverCmdLost, SenderAt, Reconnect, SenderMoves, SenderTypes, SenderStates, SenderErrors
  <2>3. SenderInv'
    BY <1>13
       DEF ReceiverCmdLost, SenderAt, Reconnect, SenderMoves, SenderInv, SenderTypes, NetTypeOK
  <2>4. QED
    BY <2>1, <2>2, <2>3
<1>14. CASE SpuriousCheckpoint(p)
  <2>1. hist' \in [Ports -> History]
    BY ZenonT(30), <1>14, HistoryUpdateType, SenderEndsType
       DEF SpuriousCheckpoint, SenderTypes
  <2>2. sConn[p] # 0
    BY ZenonT(30), <1>14, <2>1
       DEF SpuriousCheckpoint, SenderAt, SenderInv
  <2>3. toS' \in Streams
    BY ZenonT(30), <1>14, <2>1, <2>2, SenderReadType
       DEF SpuriousCheckpoint, SenderReads
  <2>4. NetTypeOK'
    BY ZenonT(30), <1>14, <2>1, <2>2, <2>3
       DEF SpuriousCheckpoint, SenderAt, SenderEnds, SenderMoves, NetTypeOK, Streams
  <2>5. SenderTypes'
    BY ZenonT(30), <1>14, <2>1, <2>2, <2>3
       DEF SpuriousCheckpoint, SenderAt, SenderEnds, SenderMoves, SenderTypes, SenderStates, SenderErrors
  <2>6. SenderInv'
    <3>1. /\ sState' = sState \/ sState' = [sState EXCEPT ![p] = "END"]
          /\ UNCHANGED <<cur, toApply, sConn>>
      BY ZenonT(30), <1>14 DEF SpuriousCheckpoint, SenderEnds, SenderMoves
    <3>2. sState[p] = "READ_RECEIVER_CMD"
      BY <1>14 DEF SpuriousCheckpoint, SenderAt
    <3>3. QED
      BY <2>2, <3>1, <3>2 DEF SenderInv, SenderTypes
  <2>7. QED
    BY <2>4, <2>5, <2>6
<1>15. CASE ProcessWaitCmd(p)
  <2>1. hist' \in [Ports -> History]
    BY <1>15, HistoryUpdateType
       DEF ProcessWaitCmd, SenderTypes
  <2>2. sConn[p] # 0
    BY <1>15, <2>1
       DEF ProcessWaitCmd, SenderAt, SenderInv
  <2>3. toS' \in Streams
    BY <1>15, <2>1, <2>2, SenderReadType
       DEF ProcessWaitCmd, SenderReads
  <2>4. NetTypeOK'
    BY <1>15, <2>1, <2>2, <2>3
       DEF ProcessWaitCmd, SenderAt, NetTypeOK, Streams
  <2>5. SenderTypes'
    BY <1>15, <2>1, <2>2, <2>3
       DEF ProcessWaitCmd, SenderAt, SenderTypes, SenderStates, SenderErrors
  <2>6. SenderInv'
    BY <1>15, <2>1, <2>2, <2>3
       DEF ProcessWaitCmd, SenderAt, SenderInv, SenderTypes, NetTypeOK
  <2>7. QED
    BY <2>4, <2>5, <2>6
<1>16. CASE ProcessDoneCmd(p)
  <2>1. [hist EXCEPT ![p] = MarkAllAcknowledged(hist[p])] \in [Ports -> History]
    BY <1>16, HistoryUpdateType
       DEF SenderTypes
  <2>2. hist' \in [Ports -> History]
    BY ZenonT(30), <1>16, <2>1, SenderEndsType
       DEF ProcessDoneCmd
  <2>3. sConn[p] # 0
    BY ZenonT(30), <1>16, <2>1, <2>2
       DEF ProcessDoneCmd, SenderAt, SenderInv
  <2>4. toS' \in Streams
    BY ZenonT(30), <1>16, <2>1, <2>2, <2>3, SenderReadType
       DEF ProcessDoneCmd, SenderReads
  <2>m. Cmd("DONE") \in Message
    BY CmdType DEF Cmds
  <2>5. toR' \in Streams
    BY ZenonT(30), <1>16, <2>3, <2>m, SenderWriteType DEF ProcessDoneCmd
  <2>6. NetTypeOK'
    BY ZenonT(30), <1>16, <2>1, <2>2, <2>3, <2>4, <2>5
       DEF ProcessDoneCmd, SenderAt, SenderEnds, SenderMoves, NetTypeOK, Streams
  <2>7. SenderTypes'
    <3>1. /\ \E st \in {"EXPECT_EOS", "END"} : sState' = [sState EXCEPT ![p] = st]
          /\ sErr' = [sErr EXCEPT ![p] = sErr[p]]
      BY <1>16 DEF ProcessDoneCmd, SenderEnds, SenderMoves
    <3>2. sState' \in [Ports -> SenderStates] /\ sErr' \in [Ports -> SenderErrors]
      BY <3>1 DEF SenderTypes, SenderStates
    <3>3. QED
      BY <1>16, <2>2, <3>2 DEF ProcessDoneCmd, SenderTypes
  <2>8. SenderInv'
    <3>1. /\ \E st \in {"EXPECT_EOS", "END"} : sState' = [sState EXCEPT ![p] = st]
          /\ UNCHANGED <<cur, toApply, sConn>>
      BY <1>16 DEF ProcessDoneCmd, SenderEnds, SenderMoves
    <3>2. sState[p] = "READ_RECEIVER_CMD"
      BY <1>16 DEF ProcessDoneCmd, SenderAt
    <3>3. QED
      BY <2>3, <3>1, <3>2 DEF SenderInv, SenderTypes
  <2>9. QED
    BY <2>6, <2>7, <2>8
<1>17. CASE ExpectEndOfStream(p)
  <2>1. hist' \in [Ports -> History]
    BY <1>17, HistoryUpdateType, SenderEndsType
       DEF ExpectEndOfStream, SenderTypes
  <2>2. sConn[p] # 0
    BY ZenonT(30), <1>17, <2>1
       DEF ExpectEndOfStream, SenderAt, SenderInv
  <2>3. toS' \in Streams
    BY Zenon, <1>17, <2>1, <2>2, SenderReadType
       DEF ExpectEndOfStream, SenderReads
  <2>4. NetTypeOK'
    BY <1>17, <2>1, <2>2, <2>3
       DEF ExpectEndOfStream, SenderAt, SenderEnds, SenderMoves, NetTypeOK, Streams
  <2>5. SenderTypes'
    BY <1>17, <2>1, <2>2, <2>3
       DEF ExpectEndOfStream, SenderAt, SenderEnds, SenderMoves, SenderTypes, SenderStates, SenderErrors
  <2>6. SenderInv'
    BY <1>17, <2>1, <2>2, <2>3
       DEF ExpectEndOfStream, SenderAt, SenderEnds, SenderMoves, SenderInv, SenderTypes, NetTypeOK
  <2>7. QED
    BY <2>4, <2>5, <2>6
<1>18. CASE ProcessErrCmd(p)
  <2>1. hist' \in [Ports -> History]
    BY <1>18, HistoryUpdateType
       DEF ProcessErrCmd, SenderTypes
  <2>2. sConn[p] # 0
    BY ZenonT(30), <1>18, <2>1
       DEF ProcessErrCmd, SenderAt, SenderInv
  <2>3. toS' \in Streams
    BY ZenonT(30), <1>18, <2>1, <2>2, SenderReadType
       DEF ProcessErrCmd, SenderReads
  <2>4. Head(toS[p][sConn[p]]).cks \in Seq(Checkpoint)
    BY ZenonT(30), <1>18, <2>1, <2>2, <2>3, SenderReadType
       DEF ProcessErrCmd, SenderReads, Message
  <2>5. NetTypeOK'
    BY ZenonT(30), <1>18, <2>1, <2>2, <2>3, <2>4
       DEF ProcessErrCmd, SenderAt, Reconnect, SenderMoves, NetTypeOK, Streams
  <2>6. SenderTypes'
    <3>1. toApply' \in [Ports -> Seq(Checkpoint)]
      BY ZenonT(30), <1>18, <2>4 DEF ProcessErrCmd, SenderTypes
    <3>2. sState' \in [Ports -> SenderStates] /\ sErr' \in [Ports -> SenderErrors]
      <4>1. PICK st \in SenderStates, err \in SenderErrors :
               sState' = [sState EXCEPT ![p] = st] /\ sErr' = [sErr EXCEPT ![p] = err]
        <5>1. SenderMoves(p, "PROCESS_ERR_CMD", sErr[p]) \/ SenderMoves(p, "CONNECT", "SOCKET_READ_ERROR")
          BY <1>18 DEF ProcessErrCmd, Reconnect
        <5>2. /\ "PROCESS_ERR_CMD" \in SenderStates /\ "CONNECT" \in SenderStates
              /\ sErr[p] \in SenderErrors
          BY DEF SenderStates, SenderTypes
        <5>3. "SOCKET_READ_ERROR" \in SenderErrors
          BY DEF SenderErrors
        <5>4. QED
          BY <5>1, <5>2, <5>3 DEF SenderMoves
      <4>2. QED
        BY <4>1 DEF SenderTypes
    <3>3. QED
      BY Zenon, <1>18, <2>1, <3>1, <3>2 DEF ProcessErrCmd, SenderTypes
  <2>7. SenderInv'
    <3>1. /\ \E st \in {"PROCESS_ERR_CMD", "CONNECT"} : sState' = [sState EXCEPT ![p] = st]
          /\ UNCHANGED <<cur, sConn>>
          /\ \A q \in Ports \ {p} : toApply'[q] = toApply[q]
      BY <1>18 DEF ProcessErrCmd, Reconnect, SenderMoves, SenderTypes
    <3>2. sState[p] = "READ_RECEIVER_CMD"
      BY ZenonT(30), <1>18 DEF ProcessErrCmd, SenderAt
    <3>3. QED
      BY Zenon, <2>2, <3>1, <3>2 DEF SenderInv, SenderTypes
  <2>8. QED
    BY <2>5, <2>6, <2>7
<1>19. CASE HandleGlobalCheckpoint(p)
  <2> DEFINE ck == Head(toApply[p])
  <2>a. toApply[p] \in Seq(Checkpoint) /\ toApply[p] # <<>>
    BY ZenonT(30), <1>19 DEF HandleGlobalCheckpoint, SenderTypes
  <2>b. ck \in Checkpoint
    BY <2>a
  <2>1. ck \in Checkpoint /\ ck.port \in Ports /\ ck.numBlocks \in Nat
    BY <2>b, CheckpointType
  <2>2. hist[ck.port] \in History /\ Len(hist[ck.port].src) \in Nat
    <3> HIDE DEF ck
    <3>1. hist[ck.port] \in History
      BY <2>1 DEF SenderTypes
    <3>2. QED
      BY <3>1, HistoryType
  <2>3. /\ SetCheckpoint(hist[ck.port], ck, TRUE) \in History
        /\ SourcesToReturn(hist[ck.port], ck, TRUE) \subseteq Source
    BY ZenonT(30), <2>1, <2>2, SetCheckpointType
  <2>4. hist' \in [Ports -> History]
    BY ZenonT(30), <1>19, <2>1, <2>3 DEF HandleGlobalCheckpoint, SenderTypes
  <2>5. queue' \in SUBSET Source /\ rejected' \in SUBSET Ports
    <3>1. CASE SetCheckpointCode(hist[ck.port], ck, TRUE) = "INVALID_CHECKPOINT"
      BY ZenonT(30), <1>19, <2>1, <3>1 DEF HandleGlobalCheckpoint, SenderTypes
    <3>2. CASE SetCheckpointCode(hist[ck.port], ck, TRUE) # "INVALID_CHECKPOINT"
      <4>1. /\ queue' = queue \cup SourcesToReturn(hist[ck.port], ck, TRUE)
            /\ rejected' = rejected
        BY ZenonT(30), <1>19, <3>2 DEF HandleGlobalCheckpoint, ReturnToQueue
      <4>2. queue' \in SUBSET Source
        BY ZenonT(30), <2>3, <4>1 DEF SenderTypes
      <4>3. QED
        BY ZenonT(30), <4>1, <4>2 DEF SenderTypes
    <3>3. QED
      BY ZenonT(30), <3>1, <3>2
  <2>6. NetTypeOK'
    BY ZenonT(30), <1>19 DEF HandleGlobalCheckpoint, NetTypeOK, netVars
  <2>7. SenderTypes'
    BY ZenonT(30), <1>19, <2>4, <2>5
       DEF HandleGlobalCheckpoint, SenderMoves, SenderTypes, SenderStates, SenderErrors
  <2>8. SenderInv'
    BY ZenonT(30), <1>19
       DEF HandleGlobalCheckpoint, SenderMoves, SenderInv, SenderTypes, netVars
  <2>9. QED
    BY <2>6, <2>7, <2>8
<1>20. CASE GlobalCheckpointApplied(p)
  <2>1. toApply[p] # <<>> /\ toApply[p] \in Seq(Checkpoint)
    BY Zenon, <1>20
       DEF GlobalCheckpointApplied, SenderTypes, SenderInv
  <2>2. NetTypeOK'
    BY <1>20, <2>1
       DEF GlobalCheckpointApplied, SenderMoves, netVars, NetTypeOK, Streams
  <2>3. SenderTypes'
    <3>1. Tail(toApply[p]) \in Seq(Checkpoint)
      BY <2>1
    <3>2. toApply' = [toApply EXCEPT ![p] = Tail(toApply[p])]
      BY ZenonT(30), <1>20 DEF GlobalCheckpointApplied
    <3>3. toApply' \in [Ports -> Seq(Checkpoint)]
      BY <3>1, <3>2 DEF SenderTypes
    <3>4. /\ sState' \in [Ports -> SenderStates]
          /\ sErr' \in [Ports -> SenderErrors]
      BY ZenonT(30), <1>20 DEF GlobalCheckpointApplied, SenderMoves, SenderTypes, SenderStates
    <3>5. QED
      BY <1>20, <3>3, <3>4 DEF GlobalCheckpointApplied, SenderTypes
  <2>4. SenderInv'
    BY ZenonT(30), <1>20, <2>1
       DEF GlobalCheckpointApplied, SenderMoves, netVars, SenderInv, SenderTypes, NetTypeOK
  <2>5. QED
    BY <2>2, <2>3, <2>4
<1>21. QED
  BY <1>1, <1>2, <1>3, <1>4, <1>5, <1>6, <1>7, <1>8, <1>9, <1>10, <1>11, <1>12, <1>13, <1>14, <1>15, <1>16, <1>17, <1>18, <1>19, <1>20 DEF SenderStep

-----------------------------------------------------------------------------
(* What a step of the sender does to the sources: nothing, *)
SourcesUntouched ==
    /\ queue' = queue /\ cur' = cur /\ dequeued' = dequeued
    /\ \A q \in Ports : hist'[q].src = hist[q].src /\ hist'[q].last = hist[q].last

(* getNextSource for thread p, *)
TakesSource(p) ==
    /\ cur[p] = NoSource
    /\ \E s \in queue : queue' = queue \ {s} /\ cur' = [cur EXCEPT ![p] = s]
    /\ dequeued' = dequeued + 1
    /\ hist' = hist

(* addSource of thread p, *)
AddsSource(p) ==
    /\ cur[p] \in Source
    /\ cur' = [cur EXCEPT ![p] = NoSource]
    /\ hist'[p].src = AddSource(hist[p], cur[p]).src
    /\ hist'[p].last = AddSource(hist[p], cur[p]).last
    /\ \A q \in Ports \ {p} : hist'[q].src = hist[q].src /\ hist'[q].last = hist[q].last
    /\ queue' = queue \cup SourceToReturn(hist[p], cur[p])
    /\ dequeued' = IF hist[p].global THEN dequeued - 1 ELSE dequeued

(* or a valid checkpoint for the history of thread q. *)
SetsCheckpoint(q, ck, g) ==
    /\ SetCheckpointCode(hist[q], ck, g) # "INVALID_CHECKPOINT"
    /\ hist' = [hist EXCEPT ![q] = SetCheckpoint(hist[q], ck, g)]
    /\ queue' = queue \cup SourcesToReturn(hist[q], ck, g)
    /\ cur' = cur
    /\ dequeued' = dequeued - (Len(hist[q].src) - ck.numBlocks)

(* The checkpoint is the local one that thread p reads, or the next one of the
   global checkpoints it has read. *)
Arrived(p, ck) ==
    \/ /\ sConn[p] # 0 /\ toS[p][sConn[p]] # <<>>
       /\ Head(toS[p][sConn[p]]).cks # <<>>
       /\ ck = Head(toS[p][sConn[p]]).cks[1]
    \/ toApply[p] # <<>> /\ ck = Head(toApply[p])

(* Leaving the thread's loop only marks the history as not in use. *)
LEMMA SenderEndsKeepsSources ==
    ASSUME NEW p \in Ports, NEW err, NEW h \in [Ports -> History], SenderEnds(p, err, h)
    PROVE  \A q \in Ports : hist'[q].src = h[q].src /\ hist'[q].last = h[q].last
BY HistoryUpdateType DEF SenderEnds

(* addSource, with the end of a thread whose connection has had its global
   checkpoint. *)
LEMMA AddSourceToHistoryKind ==
    ASSUME SenderTypes, SenderInv, NEW p \in Ports, AddSourceToHistory(p)
    PROVE  AddsSource(p)
<1> DEFINE newHist == [hist EXCEPT ![p] = AddSource(hist[p], cur[p])]
<1>1. cur[p] \in Source /\ hist[p] \in History /\ cur' = [cur EXCEPT ![p] = NoSource]
  BY DEF AddSourceToHistory, SenderInv, SenderTypes
<1>2. newHist \in [Ports -> History]
  BY <1>1, AddSourceType DEF SenderTypes
<1>3. \A q \in Ports : hist'[q].src = newHist[q].src /\ hist'[q].last = newHist[q].last
  BY Zenon, <1>2, SenderEndsKeepsSources DEF AddSourceToHistory
<1>4. /\ newHist[p] = AddSource(hist[p], cur[p])
      /\ \A q \in Ports \ {p} : newHist[q] = hist[q]
  BY DEF SenderTypes
<1>5. /\ queue' = queue \cup SourceToReturn(hist[p], cur[p])
      /\ dequeued' = IF hist[p].global THEN dequeued - 1 ELSE dequeued
  BY DEF AddSourceToHistory, ReturnToQueue, SourceToReturn
<1> HIDE DEF newHist
<1>6. QED
  BY <1>1, <1>3, <1>4, <1>5 DEF AddsSource

(* Every handler of a sender thread does one of the four to the sources. *)
LEMMA SenderStepKinds ==
    ASSUME NetTypeOK, SenderTypes, SenderInv, NEW p \in Ports, SenderStep(p)
    PROVE  \/ SourcesUntouched \/ TakesSource(p) \/ AddsSource(p)
           \/ \E q \in Ports, ck \in Checkpoint, g \in BOOLEAN :
                 Arrived(p, ck) /\ SetsCheckpoint(q, ck, g)
<1>a. /\ hist \in [Ports -> History]
      /\ \A q \in Ports : hist[q] \in History
  BY DEF SenderTypes
<1>1. CASE AbortThread(p)
  <2>1. \A q \in Ports : hist'[q].src = hist[q].src /\ hist'[q].last = hist[q].last
    BY <1>a, <1>1, SenderEndsKeepsSources DEF AbortThread
  <2>2. QED
    BY <1>1, <2>1 DEF SourcesUntouched, AbortThread
<1>2. CASE ConnectToReceiver(p)
  BY <1>2 DEF SourcesUntouched, ConnectToReceiver
<1>3. CASE GiveUpConnecting(p)
  <2>1. \A q \in Ports : hist'[q].src = hist[q].src /\ hist'[q].last = hist[q].last
    BY <1>a, <1>3, SenderEndsKeepsSources DEF GiveUpConnecting
  <2>2. QED
    BY <1>3, <2>1 DEF SourcesUntouched, GiveUpConnecting
<1>4. CASE ReadLocalCheckPoint(p)
  <2> DEFINE ck == Head(toS[p][sConn[p]]).cks[1]
  <2>1. CASE SetCheckpointCode(hist[p], ck, FALSE) = "INVALID_CHECKPOINT"
    <3>1. /\ SenderEnds(p, "PROTOCOL_ERROR", hist)
          /\ UNCHANGED <<queue, cur, dequeued>>
      BY Zenon, <1>4, <2>1 DEF ReadLocalCheckPoint
    <3>2. QED
      BY <1>a, <3>1, SenderEndsKeepsSources DEF SourcesUntouched
  <2>2. CASE SetCheckpointCode(hist[p], ck, FALSE) # "INVALID_CHECKPOINT"
    <3>1. sConn[p] # 0
      BY Zenon, <1>4 DEF ReadLocalCheckPoint, SenderAt, SenderInv
    <3>2. Head(toS[p][sConn[p]]) \in Message /\ Head(toS[p][sConn[p]]).cmd = "LOCAL_CHECKPOINT"
      BY Zenon, <1>4, <3>1, SenderReadType DEF ReadLocalCheckPoint, SenderReads
    <3>3. ck \in Checkpoint
      BY <3>2, LocalCheckpointType
    <3>4. /\ hist' = [hist EXCEPT ![p] = SetCheckpoint(hist[p], ck, FALSE)]
          /\ queue' = queue \cup SourcesToReturn(hist[p], ck, FALSE)
          /\ cur' = cur
          /\ dequeued' = dequeued - (Len(hist[p].src) - ck.numBlocks)
      BY Zenon, <1>4, <2>2 DEF ReadLocalCheckPoint, ReturnToQueue
    <3>5. Arrived(p, ck)
      BY Zenon, <1>4, <3>1, <3>2 DEF ReadLocalCheckPoint, SenderReads, Arrived, Message
    <3> HIDE DEF ck
    <3>6. QED
      BY Zenon, <2>2, <3>3, <3>4, <3>5 DEF SetsCheckpoint
  <2>3. QED
    BY Zenon, <2>1, <2>2
<1>5. CASE LocalCheckPointLost(p)
  BY <1>5 DEF SourcesUntouched, LocalCheckPointLost
<1>6. CASE SendSettings(p)
  BY Zenon, <1>6 DEF SourcesUntouched, SendSettings
<1>7. CASE SendSizeCmd(p)
  BY Zenon, <1>7 DEF SourcesUntouched, SendSizeCmd
<1>8. CASE SendOneByteSource(p)
  BY Zenon, <1>8 DEF SendOneByteSource, TakesSource, SenderAt, SenderInv
<1>9. CASE AddSourceToHistory(p)
  BY <1>9, AddSourceToHistoryKind
<1>10. CASE SendDoneCmd(p)
  BY <1>10 DEF SourcesUntouched, SendDoneCmd
<1>11. CASE CheckForAbort(p)
  BY <1>11 DEF SourcesUntouched, CheckForAbort
<1>12. CASE ProcessAbortCmd(p)
  <2>1. \A q \in Ports : hist'[q].src = hist[q].src /\ hist'[q].last = hist[q].last
    BY <1>a, <1>12, SenderEndsKeepsSources DEF ProcessAbortCmd
  <2>2. QED
    BY Zenon, <1>12, <2>1 DEF SourcesUntouched, ProcessAbortCmd
<1>13. CASE ReceiverCmdLost(p)
  BY <1>13 DEF SourcesUntouched, ReceiverCmdLost
<1>14. CASE SpuriousCheckpoint(p)
  <2>1. \A q \in Ports : hist'[q].src = hist[q].src /\ hist'[q].last = hist[q].last
    BY Zenon, <1>a, <1>14, SenderEndsKeepsSources DEF SpuriousCheckpoint
  <2>2. QED
    BY Zenon, <1>14, <2>1 DEF SourcesUntouched, SpuriousCheckpoint
<1>15. CASE ProcessWaitCmd(p)
  <2>1. \A q \in Ports : hist'[q].src = hist[q].src /\ hist'[q].last = hist[q].last
    BY <1>a, <1>15, HistoryUpdateType DEF ProcessWaitCmd
  <2>2. QED
    BY <1>15, <2>1 DEF SourcesUntouched, ProcessWaitCmd
<1>16. CASE ProcessDoneCmd(p)
  <2> DEFINE newHist == [hist EXCEPT ![p] = MarkAllAcknowledged(hist[p])]
  <2>1. /\ newHist \in [Ports -> History]
        /\ \A q \in Ports : newHist[q].src = hist[q].src /\ newHist[q].last = hist[q].last
    BY <1>a, HistoryUpdateType
  <2>2. hist' = newHist \/ SenderEnds(p, sErr[p], newHist)
    BY <1>16 DEF ProcessDoneCmd
  <2> HIDE DEF newHist
  <2>3. \A q \in Ports : hist'[q].src = newHist[q].src /\ hist'[q].last = newHist[q].last
    BY <2>1, <2>2, SenderEndsKeepsSources
  <2>4. QED
    BY Zenon, <1>16, <2>1, <2>3 DEF SourcesUntouched, ProcessDoneCmd
<1>17. CASE ExpectEndOfStream(p)
  <2>1. \A q \in Ports : hist'[q].src = hist[q].src /\ hist'[q].last = hist[q].last
    BY <1>a, <1>17, SenderEndsKeepsSources DEF ExpectEndOfStream
  <2>2. QED
    BY <1>17, <2>1 DEF SourcesUntouched, ExpectEndOfStream
<1>18. CASE ProcessErrCmd(p)
  <2>1. \A q \in Ports : hist'[q].src = hist[q].src /\ hist'[q].last = hist[q].last
    BY <1>a, <1>18, HistoryUpdateType DEF ProcessErrCmd
  <2>2. QED
    BY <1>18, <2>1 DEF SourcesUntouched, ProcessErrCmd
<1>19. CASE HandleGlobalCheckpoint(p)
  <2> DEFINE ck == Head(toApply[p])
               q == ck.port
  <2>1. toApply[p] \in Seq(Checkpoint) /\ toApply[p] # <<>>
    BY Zenon, <1>19 DEF HandleGlobalCheckpoint, SenderTypes
  <2>2. ck \in Checkpoint /\ q \in Ports
    BY <2>1, CheckpointType
  <2>3. hist' = [hist EXCEPT ![q] = SetCheckpoint(hist[q], ck, TRUE)] /\ cur' = cur
    BY Zenon, <1>19 DEF HandleGlobalCheckpoint
  <2>4. CASE SetCheckpointCode(hist[q], ck, TRUE) = "INVALID_CHECKPOINT"
    <3>1. queue' = queue /\ dequeued' = dequeued /\ SetCheckpoint(hist[q], ck, TRUE) = hist[q]
      BY <1>19, <2>4 DEF HandleGlobalCheckpoint, SetCheckpoint
    <3> HIDE DEF ck, q
    <3>2. \A r \in Ports : hist'[r].src = hist[r].src /\ hist'[r].last = hist[r].last
      BY Zenon, <1>a, <2>2, <2>3, <3>1
    <3>3. QED
      BY Zenon, <2>3, <3>1, <3>2 DEF SourcesUntouched
  <2>5. CASE SetCheckpointCode(hist[q], ck, TRUE) # "INVALID_CHECKPOINT"
    <3>1. /\ queue' = queue \cup SourcesToReturn(hist[q], ck, TRUE)
          /\ dequeued' = dequeued - (Len(hist[q].src) - ck.numBlocks)
      BY Zenon, <1>19, <2>5 DEF HandleGlobalCheckpoint, ReturnToQueue
    <3>2. Arrived(p, ck)
      BY <2>1 DEF Arrived
    <3> HIDE DEF ck, q
    <3>3. QED
      BY Zenon, <2>2, <2>3, <2>5, <3>1, <3>2 DEF SetsCheckpoint
  <2>6. QED
    BY Zenon, <2>4, <2>5
<1>20. CASE GlobalCheckpointApplied(p)
  BY <1>20 DEF SourcesUntouched, GlobalCheckpointApplied
<1>21. QED
  BY <1>1, <1>2, <1>3, <1>4, <1>5, <1>6, <1>7, <1>8, <1>9, <1>10, <1>11, <1>12, <1>13, <1>14, <1>15, <1>16, <1>17, <1>18, <1>19, <1>20 DEF SenderStep
=============================================================================

---------------------------- MODULE SenderThread ----------------------------
(***************************************************************************)
(* The state machine of a sender thread (src/SenderThread.cpp), the queue  *)
(* of sources the threads share (returnToQueue and getNextSource of        *)
(* src/util/DirectorySourceQueue.cpp, after discovery has finished), the   *)
(* histories, and Sender::finish (src/Sender.cpp).                         *)
(*                                                                         *)
(* A state of the code is a value of sState; three handlers block or can   *)
(* be overtaken in the middle, and have one more value for that:           *)
(* ADD_SOURCE (sendBlocks, between the last socket write and addSource),   *)
(* WAIT_NOT_IN_USE (processErrCmd, inside setGlobalCheckpoint) and         *)
(* EXPECT_EOS (processDoneCmd, inside expectEndOfStream).  A command is    *)
(* read and processed in one step.  Which source the queue hands out is    *)
(* left open.  File chunks (download resumption), version negotiation and  *)
(* heart beats are not part of this module.                                *)
(***************************************************************************)
EXTENDS Connections

CONSTANTS
    MaxTransferRetries,  \* options_.max_transfer_retries
    SendSize             \* protocol >= RECEIVER_PROGRESS_REPORT_VERSION

ASSUME SenderAssumption ==
    /\ MaxTransferRetries \in Nat \ {0}
    /\ SendSize \in BOOLEAN

VARIABLES
    sState,     \* [port]: state of the sender thread
    sErr,       \* [port]: threadStats_.getLocalErrorCode()
    noProgress, \* [port]: numReconnectWithoutProgress_
    sizeSent,   \* [port]: totalSizeSent_
    cur,        \* [port]: the source being sent, NoSource if none
    sent,       \* [port]: sendOneByteSource of cur reported OK
    hist,       \* [port]: ThreadTransferHistory
    toApply,    \* [port]: global checkpoints read and not yet applied
    queue,      \* sourceQueue_
    dequeued,   \* numBlocksDequeued_
    aborted,    \* WdtBase::abortCode_ is not OK
    rejected,   \* ports whose history refused a checkpoint
    finished    \* Sender::finish has run

senderVars == <<sState, sErr, noProgress, sizeSent, cur, sent, hist, toApply,
                queue, dequeued, aborted, rejected, finished>>

SenderStates ==
    {"CONNECT", "READ_LOCAL_CHECKPOINT", "SEND_SETTINGS", "SEND_BLOCKS", "ADD_SOURCE",
     "CHECK_FOR_ABORT", "READ_RECEIVER_CMD", "PROCESS_ERR_CMD", "WAIT_NOT_IN_USE",
     "EXPECT_EOS", "END"}

SenderErrors ==
    {"OK", "SOCKET_READ_ERROR", "SOCKET_WRITE_ERROR", "CONN_ERROR", "NO_PROGRESS",
     "PROTOCOL_ERROR", "ABORT"}

SenderTypeOK ==
    /\ sState \in [Ports -> SenderStates]
    /\ sErr \in [Ports -> SenderErrors]
    /\ noProgress \in [Ports -> Nat]
    /\ sizeSent \in [Ports -> BOOLEAN]
    /\ cur \in [Ports -> Source \cup {NoSource}]
    /\ sent \in [Ports -> BOOLEAN]
    /\ hist \in [Ports -> History]
    /\ toApply \in [Ports -> Seq(Checkpoint)]
    /\ queue \in SUBSET Source
    /\ dequeued \in Int
    /\ aborted \in BOOLEAN
    /\ rejected \in SUBSET Ports
    /\ finished \in BOOLEAN

SenderInit ==
    /\ sState = [p \in Ports |-> "CONNECT"]
    /\ sErr = [p \in Ports |-> "OK"]
    /\ noProgress = [p \in Ports |-> 0]
    /\ sizeSent = [p \in Ports |-> FALSE]
    /\ cur = [p \in Ports |-> NoSource]
    /\ sent = [p \in Ports |-> FALSE]
    /\ hist = [p \in Ports |-> NewHistory]
    /\ toApply = [p \in Ports |-> <<>>]
    /\ queue = [blk : Blocks, off : {0}]
    /\ dequeued = 0
    /\ aborted = FALSE
    /\ rejected = {}
    /\ finished = FALSE

-----------------------------------------------------------------------------
(* getThreadAbortCode: the transfer was aborted, or another thread has been
   told that this thread's connection is gone for good *)
ThreadAborted(p) == aborted \/ hist[p].global

(* the loop of SenderThread::start calls the handler of the current state *)
SenderAt(p, st) == sState[p] = st /\ ~ThreadAborted(p)

SenderMoves(p, st, err) ==
    /\ sState' = [sState EXCEPT ![p] = st]
    /\ sErr' = [sErr EXCEPT ![p] = err]

(* the thread leaves its loop: markNotInUse, and the socket is destroyed *)
SenderEnds(p, err, h) ==
    /\ SenderMoves(p, "END", err)
    /\ hist' = [h EXCEPT ![p] = MarkNotInUse(h[p])]
    /\ sOpen' = [sOpen EXCEPT ![p] = FALSE]

(* Mutation: numBlocksDequeued_ counts every source that was ever taken. *)
ReturnToQueue_KeepsCount(srcs, n) ==
    /\ queue' = queue \cup srcs
    /\ dequeued' = dequeued

ReturnToQueue(srcs, n) ==
    /\ queue' = queue \cup srcs
    /\ dequeued' = dequeued - n

(* start: an abort found between two handlers ends the thread *)
AbortThread(p) ==
    /\ ThreadAborted(p)
    /\ sState[p] \notin {"ADD_SOURCE", "PROCESS_ERR_CMD", "WAIT_NOT_IN_USE", "END"}
    /\ SenderEnds(p, "ABORT", hist)
    /\ UNCHANGED <<noProgress, sizeSent, cur, sent, toApply, queue, dequeued, aborted,
                   rejected, finished, toR, toS, up, sConn, rConn, rOpen, listening, breaks>>

(* connect *)
ConnectToReceiver(p) ==
    /\ SenderAt(p, "CONNECT")
    /\ noProgress[p] < MaxTransferRetries
    /\ Connect(p)
    /\ SenderMoves(p, IF sErr[p] # "OK" THEN "READ_LOCAL_CHECKPOINT" ELSE "SEND_SETTINGS", "OK")
    /\ sizeSent' = [sizeSent EXCEPT ![p] = FALSE]
    /\ UNCHANGED <<noProgress, cur, sent, hist, toApply, queue, dequeued, aborted, rejected,
                   finished, toR, toS, up, rConn, rOpen, listening>>

(* connect: out of retries, or nobody listens any more *)
GiveUpConnecting(p) ==
    /\ SenderAt(p, "CONNECT")
    /\ \/ /\ noProgress[p] >= MaxTransferRetries
          /\ SenderEnds(p, "NO_PROGRESS", hist)
       \/ /\ noProgress[p] < MaxTransferRetries
          /\ ~listening[p] \/ sConn[p] = MaxConns
          /\ SenderEnds(p, "CONN_ERROR", hist)
    /\ UNCHANGED <<noProgress, sizeSent, cur, sent, toApply, queue, dequeued, aborted,
                   rejected, finished, toR, toS, up, sConn, rConn, rOpen, listening, breaks>>

(* readLocalCheckPoint *)
ReadLocalCheckPoint(p) ==
    /\ SenderAt(p, "READ_LOCAL_CHECKPOINT")
    /\ SenderReads(p, "LOCAL_CHECKPOINT")
    /\ SenderConsumes(p)
    /\ LET h == hist[p]
           ck == Head(toS[p][sConn[p]]).cks[1]
           code == SetCheckpointCode(h, ck, FALSE)
           newHist == [hist EXCEPT ![p] = SetCheckpoint(h, ck, FALSE)]
       IN  \/ /\ code = "INVALID_CHECKPOINT"
              /\ SenderEnds(p, "PROTOCOL_ERROR", hist)
              /\ rejected' = rejected \cup {p}
              /\ UNCHANGED <<noProgress, queue, dequeued>>
           \/ /\ code # "INVALID_CHECKPOINT"
              /\ SenderMoves(p, "SEND_SETTINGS", sErr[p])
              /\ hist' = newHist
              /\ ReturnToQueue(SourcesToReturn(h, ck, FALSE), Len(h.src) - ck.numBlocks)
              /\ noProgress' = [noProgress EXCEPT ![p] = IF code = "NO_PROGRESS" THEN @ + 1 ELSE 0]
              /\ UNCHANGED <<sOpen, rejected>>
    /\ UNCHANGED <<sizeSent, cur, sent, toApply, aborted, finished, toR, up, sConn, rConn,
                   rOpen, listening, breaks>>

(* a failed read or write closes the socket on the way to CONNECT *)
Reconnect(p, err) ==
    /\ SenderMoves(p, "CONNECT", err)
    /\ sOpen' = [sOpen EXCEPT ![p] = FALSE]

LocalCheckPointLost(p) ==
    /\ SenderAt(p, "READ_LOCAL_CHECKPOINT")
    /\ SenderReadFails(p)
    /\ Reconnect(p, "SOCKET_READ_ERROR")
    /\ noProgress' = [noProgress EXCEPT ![p] = @ + 1]
    /\ UNCHANGED <<sizeSent, cur, sent, hist, toApply, queue, dequeued, aborted, rejected,
                   finished, toR, toS, up, sConn, rConn, rOpen, listening, breaks>>

(* sendSettings *)
SendSettings(p) ==
    /\ SenderAt(p, "SEND_SETTINGS")
    /\ \/ /\ SenderWriteOk(p, Cmd("SETTINGS"))
          /\ SenderMoves(p, "SEND_BLOCKS", sErr[p])
          /\ sOpen' = sOpen
       \/ /\ SenderWriteFails(p)
          /\ Reconnect(p, "SOCKET_WRITE_ERROR")
    /\ UNCHANGED <<noProgress, sizeSent, cur, sent, hist, toApply, queue, dequeued, aborted,
                   rejected, finished, toS, up, sConn, rConn, rOpen, listening, breaks>>

MustSendSize(p) == SendSize /\ ~sizeSent[p]

(* sendBlocks and sendSizeCmd *)
SendSizeCmd(p) ==
    /\ SenderAt(p, "SEND_BLOCKS")
    /\ MustSendSize(p)
    /\ \/ /\ SenderWriteOk(p, Cmd("SIZE"))
          /\ SenderMoves(p, "SEND_BLOCKS", sErr[p])
          /\ sizeSent' = [sizeSent EXCEPT ![p] = TRUE]
       \/ /\ SenderWriteFails(p)
          /\ SenderMoves(p, "CHECK_FOR_ABORT", "SOCKET_WRITE_ERROR")
          /\ sizeSent' = sizeSent
    /\ UNCHANGED <<noProgress, cur, sent, hist, toApply, queue, dequeued, aborted, rejected,
                   finished, toS, up, sConn, sOpen, rConn, rOpen, listening, breaks>>

(* sendBlocks: getNextSource, then sendOneByteSource.  The last disjunct is a
   connection that fails while the block is being written. *)
SendOneByteSource(p) ==
    /\ SenderAt(p, "SEND_BLOCKS")
    /\ ~MustSendSize(p)
    /\ \E s \in queue :
          /\ queue' = queue \ {s}
          /\ cur' = [cur EXCEPT ![p] = s]
          /\ \/ /\ SenderWriteOk(p, FileCmd(s))
                /\ sent' = [sent EXCEPT ![p] = TRUE]
                /\ UNCHANGED <<up, breaks>>
             \/ /\ SenderWriteFails(p)
                /\ sent' = [sent EXCEPT ![p] = FALSE]
                /\ UNCHANGED <<up, breaks>>
             \/ /\ ReachesReceiver(p)
                /\ breaks < MaxBreaks
                /\ breaks' = breaks + 1
                /\ up' = [up EXCEPT ![p][sConn[p]] = FALSE]
                /\ \E m \in CutCommand(FileCmd(s)) :
                      toR' = [toR EXCEPT ![p][sConn[p]] = Append(@, m)]
                /\ sent' = [sent EXCEPT ![p] = FALSE]
    /\ dequeued' = dequeued + 1
    /\ SenderMoves(p, "ADD_SOURCE", sErr[p])
    /\ UNCHANGED <<noProgress, sizeSent, hist, toApply, aborted, rejected, finished,
                   toS, sConn, sOpen, rConn, rOpen, listening>>

(* sendBlocks: addSource *)
AddSourceToHistory(p) ==
    /\ sState[p] = "ADD_SOURCE"
    /\ LET h == hist[p]
           newHist == [hist EXCEPT ![p] = AddSource(h, cur[p])]
       IN  IF h.global
           THEN /\ SenderEnds(p, "CONN_ERROR", newHist)
                /\ ReturnToQueue(SourceToReturn(h, cur[p]), 1)
           ELSE /\ SenderMoves(p, IF sent[p] THEN "SEND_BLOCKS" ELSE "CHECK_FOR_ABORT",
                                  IF sent[p] THEN sErr[p] ELSE "SOCKET_WRITE_ERROR")
                /\ hist' = newHist
                /\ UNCHANGED <<queue, dequeued, sOpen>>
    /\ cur' = [cur EXCEPT ![p] = NoSource]
    /\ sent' = [sent EXCEPT ![p] = FALSE]
    /\ UNCHANGED <<noProgress, sizeSent, toApply, aborted, rejected, finished, toR, toS, up,
                   sConn, rConn, rOpen, listening, breaks>>

(* sendBlocks with an empty queue, and sendDoneCmd *)
SendDoneCmd(p) ==
    /\ SenderAt(p, "SEND_BLOCKS")
    /\ ~MustSendSize(p)
    /\ queue = {}
    /\ \/ /\ SenderWriteOk(p, Cmd("DONE"))
          /\ SenderMoves(p, "READ_RECEIVER_CMD", sErr[p])
       \/ /\ SenderWriteFails(p)
          /\ SenderMoves(p, "CHECK_FOR_ABORT", "SOCKET_WRITE_ERROR")
    /\ UNCHANGED <<noProgress, sizeSent, cur, sent, hist, toApply, queue, dequeued, aborted,
                   rejected, finished, toS, up, sConn, sOpen, rConn, rOpen, listening, breaks>>

-----------------------------------------------------------------------------
(* checkForAbort: anything but an ABORT command leads to a new connection *)
CheckForAbort(p) ==
    /\ SenderAt(p, "CHECK_FOR_ABORT")
    /\ ~SenderReads(p, "ABORT")
    /\ toS[p][sConn[p]] # <<>> \/ SenderReadFails(p)
    /\ Reconnect(p, sErr[p])
    /\ UNCHANGED <<noProgress, sizeSent, cur, sent, hist, toApply, queue, dequeued, aborted,
                   rejected, finished, toR, toS, up, sConn, rConn, rOpen, listening, breaks>>

(* processAbortCmd: the whole transfer is aborted, but only this thread ends
   when the connection fails inside the command *)
ProcessAbortCmd(p) ==
    /\ SenderAt(p, "CHECK_FOR_ABORT") \/ SenderAt(p, "READ_RECEIVER_CMD")
    /\ SenderReads(p, "ABORT")
    /\ SenderConsumes(p)
    /\ SenderEnds(p, "ABORT", hist)
    /\ aborted' = (aborted \/ Head(toS[p][sConn[p]]).part = "WHOLE")
    /\ UNCHANGED <<noProgress, sizeSent, cur, sent, toApply, queue, dequeued, rejected,
                   finished, toR, up, sConn, rConn, rOpen, listening, breaks>>

(* readReceiverCmd: the read fails *)
ReceiverCmdLost(p) ==
    /\ SenderAt(p, "READ_RECEIVER_CMD") \/ SenderAt(p, "EXPECT_EOS")
    /\ SenderReadFails(p)
    /\ Reconnect(p, "SOCKET_READ_ERROR")
    /\ UNCHANGED <<noProgress, sizeSent, cur, sent, hist, toApply, queue, dequeued, aborted,
                   rejected, finished, toR, toS, up, sConn, rConn, rOpen, listening, breaks>>

(* readReceiverCmd and readAndVerifySpuriousCheckpoint *)
SpuriousCheckpoint(p) ==
    /\ SenderAt(p, "READ_RECEIVER_CMD")
    /\ SenderReads(p, "LOCAL_CHECKPOINT")
    /\ SenderConsumes(p)
    /\ LET ck == Head(toS[p][sConn[p]]).cks[1]
       IN  IF ck.numBlocks = 0 /\ ck.bytes = 0
           THEN UNCHANGED <<sState, sErr, hist, sOpen>>
           ELSE SenderEnds(p, "PROTOCOL_ERROR", hist)
    /\ UNCHANGED <<noProgress, sizeSent, cur, sent, toApply, queue, dequeued, aborted,
                   rejected, finished, toR, up, sConn, rConn, rOpen, listening, breaks>>

(* processWaitCmd *)
ProcessWaitCmd(p) ==
    /\ SenderAt(p, "READ_RECEIVER_CMD")
    /\ SenderReads(p, "WAIT")
    /\ SenderConsumes(p)
    /\ hist' = [hist EXCEPT ![p] = MarkAllAcknowledged(@)]
    /\ UNCHANGED <<sState, sErr, noProgress, sizeSent, cur, sent, toApply, queue, dequeued,
                   aborted, rejected, finished, toR, up, sConn, sOpen, rConn, rOpen,
                   listening, breaks>>

(* processDoneCmd: the acknowledgement is written, its result is not looked
   at.  Only an encrypted stream has an end the sender can wait for. *)
ProcessDoneCmd(p) ==
    /\ SenderAt(p, "READ_RECEIVER_CMD")
    /\ SenderReads(p, "DONE")
    /\ SenderConsumes(p)
    /\ SenderWriteOk(p, Cmd("DONE"))
    /\ LET newHist == [hist EXCEPT ![p] = MarkAllAcknowledged(@)]
       IN  IF FooterType = "TAG"
           THEN /\ SenderMoves(p, "EXPECT_EOS", sErr[p])
                /\ hist' = newHist
                /\ sOpen' = sOpen
           ELSE SenderEnds(p, sErr[p], newHist)
    /\ UNCHANGED <<noProgress, sizeSent, cur, sent, toApply, queue, dequeued, aborted,
                   rejected, finished, up, sConn, rConn, rOpen, listening, breaks>>

ExpectEndOfStream(p) ==
    /\ SenderAt(p, "EXPECT_EOS")
    /\ SenderReads(p, "EOS")
    /\ SenderConsumes(p)
    /\ SenderEnds(p, sErr[p], hist)
    /\ UNCHANGED <<noProgress, sizeSent, cur, sent, toApply, queue, dequeued, aborted,
                   rejected, finished, toR, up, sConn, rConn, rOpen, listening, breaks>>

(* processErrCmd: every block is acknowledged before the checkpoints are read *)
ProcessErrCmd(p) ==
    /\ SenderAt(p, "READ_RECEIVER_CMD")
    /\ SenderReads(p, "ERR")
    /\ SenderConsumes(p)
    /\ hist' = [hist EXCEPT ![p] = MarkAllAcknowledged(@)]
    /\ LET m == Head(toS[p][sConn[p]])
       IN  \/ /\ m.part = "WHOLE"
              /\ SenderMoves(p, "PROCESS_ERR_CMD", sErr[p])
              /\ toApply' = [toApply EXCEPT ![p] = m.cks]
              /\ sOpen' = sOpen
           \/ /\ m.part # "WHOLE"
              /\ Reconnect(p, "SOCKET_READ_ERROR")
              /\ toApply' = toApply
    /\ UNCHANGED <<noProgress, sizeSent, cur, sent, queue, dequeued, aborted, rejected,
                   finished, toR, up, sConn, rConn, rOpen, listening, breaks>>

(* handleGlobalCheckpoint: the checkpoint is set, then the thread waits until
   the owner of the history has stopped using it *)
HandleGlobalCheckpoint(p) ==
    /\ sState[p] = "PROCESS_ERR_CMD"
    /\ toApply[p] # <<>>
    /\ LET ck == Head(toApply[p])
           h == hist[ck.port]
       IN  /\ hist' = [hist EXCEPT ![ck.port] = SetCheckpoint(h, ck, TRUE)]
           /\ IF SetCheckpointCode(h, ck, TRUE) = "INVALID_CHECKPOINT"
              THEN /\ rejected' = rejected \cup {ck.port}
                   /\ UNCHANGED <<queue, dequeued>>
              ELSE /\ ReturnToQueue(SourcesToReturn(h, ck, TRUE), Len(h.src) - ck.numBlocks)
                   /\ rejected' = rejected
    /\ SenderMoves(p, "WAIT_NOT_IN_USE", sErr[p])
    /\ UNCHANGED <<noProgress, sizeSent, cur, sent, toApply, aborted, finished, netVars>>

GlobalCheckpointApplied(p) ==
    /\ sState[p] = "WAIT_NOT_IN_USE"
    /\ ~hist[Head(toApply[p]).port].inUse
    /\ toApply' = [toApply EXCEPT ![p] = Tail(@)]
    /\ SenderMoves(p, IF Tail(toApply[p]) = <<>> THEN "SEND_BLOCKS" ELSE "PROCESS_ERR_CMD",
                      sErr[p])
    /\ UNCHANGED <<noProgress, sizeSent, cur, sent, hist, queue, dequeued, aborted, rejected,
                   finished, netVars>>

-----------------------------------------------------------------------------
(* Sender::finish, after all threads were joined: when one thread ended
   without an error every source of every history counts as acknowledged,
   otherwise what is not acknowledged goes back to the queue, from which it
   is reported as failed. *)
AllSourcesAcked == \E p \in Ports : sErr[p] = "OK"

Finish ==
    /\ ~finished
    /\ \A p \in Ports : sState[p] = "END"
    /\ finished' = TRUE
    /\ IF AllSourcesAcked
       THEN /\ hist' = [p \in Ports |-> MarkAllAcknowledged(hist[p])]
            /\ UNCHANGED <<queue, dequeued>>
       ELSE LET unacked == UNION {UnackedSources(hist[p], p) : p \in Ports}
            IN  /\ hist' = [p \in Ports |-> ReturnUnackedSources(hist[p], p)]
                /\ ReturnToQueue(unacked, Cardinality(unacked))
    /\ UNCHANGED <<sState, sErr, noProgress, sizeSent, cur, sent, toApply, aborted, rejected,
                   netVars>>

(* SenderThread::start *)
SenderStep(p) ==
    \/ AbortThread(p)
    \/ ConnectToReceiver(p)
    \/ GiveUpConnecting(p)
    \/ ReadLocalCheckPoint(p)
    \/ LocalCheckPointLost(p)
    \/ SendSettings(p)
    \/ SendSizeCmd(p)
    \/ SendOneByteSource(p)
    \/ AddSourceToHistory(p)
    \/ SendDoneCmd(p)
    \/ CheckForAbort(p)
    \/ ProcessAbortCmd(p)
    \/ ReceiverCmdLost(p)
    \/ SpuriousCheckpoint(p)
    \/ ProcessWaitCmd(p)
    \/ ProcessDoneCmd(p)
    \/ ExpectEndOfStream(p)
    \/ ProcessErrCmd(p)
    \/ HandleGlobalCheckpoint(p)
    \/ GlobalCheckpointApplied(p)

(* What a handler relies on when it is called. *)
SenderInv ==
    \A p \in Ports :
        /\ sState[p] = "ADD_SOURCE" <=> cur[p] # NoSource
        /\ sState[p] = "WAIT_NOT_IN_USE" => toApply[p] # <<>>
        /\ sState[p] \notin {"CONNECT", "END"} => sConn[p] # 0
=============================================================================

------------------------------ MODULE Transfer ------------------------------
(***************************************************************************)
(* One transfer: the sender threads and the receiver threads of all ports, *)
(* the connections between them, the histories and the queue the sender    *)
(* threads share, the checkpoints the receiver threads share, and the end  *)
(* of the transfer in Sender::finish.                                      *)
(***************************************************************************)
EXTENDS SenderThread, ReceiverThread

(***************************************************************************)
(* Whether a sender thread that has written a block is sure to get to the  *)
(* next line of sendBlocks, addSource, before the accept window of the     *)
(* receiver thread (longer than the socket timeouts of the sender) is over.*)
(***************************************************************************)
CONSTANT PromptAddSource

ASSUME PromptAddSourceAssumption == PromptAddSource \in BOOLEAN

vars == <<netVars, senderVars, receiverVars>>

Init == NetInit /\ SenderInit /\ ReceiverInit

(* ReceiverThread::start *)
ReceiverStep(p) ==
    \/ AcceptFirstConnection(p)
    \/ AcceptWithTimeout(p)
    \/ AcceptTimesOut(p) /\ (PromptAddSource => sState[p] # "ADD_SOURCE")
    \/ SendLocalCheckpoint(p)
    \/ NextCmdLost(p)
    \/ ProcessSettingsOrSize(p)
    \/ ProcessFileCmd(p)
    \/ PartialFileCmd(p)
    \/ ChecksumMismatch(p)
    \/ FileWriteFails(p)
    \/ ProcessDone(p)
    \/ CheckForFinishOrNewCheckpoints(p)
    \/ SendWait(p)
    \/ SendGlobalCheckpoint(p)
    \/ SendDone(p)
    \/ ReadDoneAck(p)
    \/ FinishWithError(p)

Ended ==
    /\ finished
    /\ \A p \in Ports : rState[p] = "END"

Next ==
    \/ \E p \in Ports : SenderStep(p) /\ UNCHANGED receiverVars
    \/ \E p \in Ports : ReceiverStep(p) /\ UNCHANGED senderVars
    \/ Finish /\ UNCHANGED receiverVars
    \/ \E p \in Ports, i \in Conns : Break(p, i) /\ UNCHANGED <<senderVars, receiverVars>>
    \/ Ended /\ UNCHANGED vars

Spec == Init /\ [][Next]_vars

(***************************************************************************)
(* Every thread that can take a step takes one: the operating system       *)
(* schedules all threads, a read or write ends (with data, an error or its *)
(* timeout), and every wait on a condition variable has a timeout or a     *)
(* notification.  Nothing obliges the network to fail.                     *)
(***************************************************************************)
Fairness ==
    /\ \A p \in Ports : WF_vars(SenderStep(p) /\ UNCHANGED receiverVars)
    /\ \A p \in Ports : WF_vars(ReceiverStep(p) /\ UNCHANGED senderVars)
    /\ WF_vars(Finish /\ UNCHANGED receiverVars)

FairSpec == Spec /\ Fairness

-----------------------------------------------------------------------------
(* The state variables hold the values the code's types and the bounds allow. *)
TypeOK == NetTypeOK /\ SenderTypeOK /\ ReceiverTypeOK

-----------------------------------------------------------------------------
(* The places that hold a source taken from the queue: <<p, 0>> is the source
   thread p is sending, <<p, i>> the i-th source of its history. *)
Taken ==
    {<<p, 0>> : p \in {q \in Ports : cur[q] # NoSource}}
      \cup UNION {{<<p, i>> : i \in 1..Len(hist[p].src)} : p \in Ports}

SourceAt(x) == IF x[2] = 0 THEN cur[x[1]] ELSE hist[x[1]].src[x[2]]

InQueue(b) == \E s \in queue : s.blk = b

Sending(p, b) == cur[p] # NoSource /\ cur[p].blk = b

InHistory(h, b) == \E i \in 1..Len(h.src) : h.src[i].blk = b

Delivered(s) == AllBytesOf(s) \subseteq valid

(* No block is lost by the sender: in every state each block is in the queue,
   being sent by a thread, or in the history of a thread, whatever the order
   in which addSource, local and global checkpoints and returnToQueue come. *)
EveryBlockOwned ==
    \A b \in Blocks : InQueue(b) \/ (\E p \in Ports : Sending(p, b) \/ InHistory(hist[p], b))

(* No block is owned twice (it would be sent and counted twice): a source that
   goes back to the queue is not kept as well, also when addSource runs after
   the global checkpoint of its connection. *)
OwnedOnce ==
    /\ \A s, t \in queue : s.blk = t.blk => s = t
    /\ \A x, y \in Taken : SourceAt(x).blk = SourceAt(y).blk => x = y
    /\ \A s \in queue : \A x \in Taken : s.blk # SourceAt(x).blk

(* numBlocksDequeued_ is the number of sources the threads hold: the check in
   returnToQueue that it is positive cannot fail. *)
DequeuedExact == dequeued = Cardinality(Taken)

(* A send that starts in the middle of a block (after a checkpoint reported
   part of it) skips only bytes the receiver has. *)
SkippedBytesDelivered ==
    \A s \in queue \cup {SourceAt(x) : x \in Taken} :
        \A n \in 0..(s.off - 1) : <<s.blk, n>> \in valid

(* Every source a history counts as acknowledged, by WAIT, DONE, ERR, by a
   checkpoint or by Sender::finish, has arrived. *)
AckedDelivered ==
    \A p \in Ports : \A i \in 1..hist[p].acked : Delivered(hist[p].src[i])

(* What has been acknowledged stays in the history: no later checkpoint of the
   connection takes back a source that WAIT, DONE or ERR acknowledged. *)
AckedKept ==
    [][\A p \in Ports : \A i \in 1..hist[p].acked :
          i <= Len(hist'[p].src) /\ hist'[p].src[i] = hist[p].src[i]]_vars

(* When Sender::finish finds a thread that ended without an error, it takes
   every source for acknowledged: then every byte has arrived. *)
SuccessMeansDelivered ==
    finished /\ AllSourcesAcked => valid = Blocks \X (0..(BlockSize - 1))

(* A checkpoint that counts the block its owner has written and not yet added
   to the history: setGlobalCheckpoint validates it before it waits for the
   owner. *)
BeforeAddSource(ck) ==
    /\ ~PromptAddSource /\ sState[ck.port] = "ADD_SOURCE"
    /\ ck.numBlocks = Len(hist[ck.port].src) + 1

(* A checkpoint that reports a part of a block of which the last one reported
   nothing, or the other way round: the block was sent again from the same
   offset, or one of the two is about no block, which is written like the block
   with seqId 0. *)
PartOrNothing(ck) ==
    LET last == hist[ck.port].last
    IN  /\ FooterType = "NO_FOOTER"
        /\ last # NoCheckpoint /\ last = [ck EXCEPT !.bytes = last.bytes]
        /\ \/ last.bytes = 0 /\ ck.bytes > 0
           \/ last.bytes > 0 /\ ck.bytes = 0 /\ ck.blk = ZeroBlock /\ ck.off = 0

Refused(ck, isGlobal) ==
    SetCheckpointCode(hist[ck.port], ck, isGlobal) = "INVALID_CHECKPOINT"

(* The numbers a receiver thread reports never go down and repeat only what was
   said before: a history refuses the checkpoint a thread is about to set only
   for one of these two reasons, on either path a checkpoint can take, and no
   thread ends with a protocol error over anything else. *)
RefusalsExplained ==
    \A p \in Ports :
        /\ sState[p] = "PROCESS_ERR_CMD" /\ toApply[p] # <<>> =>
              LET ck == Head(toApply[p])
              IN  Refused(ck, TRUE) => BeforeAddSource(ck) \/ PartOrNothing(ck)
        /\ SenderAt(p, "READ_LOCAL_CHECKPOINT") /\ SenderReads(p, "LOCAL_CHECKPOINT") =>
              LET ck == Head(toS[p][sConn[p]]).cks[1]
              IN  Refused(ck, FALSE) => PartOrNothing(ck)
        /\ sErr[p] = "PROTOCOL_ERROR" => p \in rejected

(* The checks of the receiver threads: finishWithError has an error to report,
   waitForFinishOrNewCheckpoint has none and knows the sender's timeouts. *)
ReceiverChecks ==
    \A p \in Ports :
        /\ rState[p] = "FINISH_WITH_ERROR" => rErr[p]
        /\ rState[p] = "WAIT_FOR_FINISH_OR_NEW_CHECKPOINT" => ~rErr[p] /\ settings[p]

(* Every thread of both sides ends and the report is made. *)
Termination == <>Ended
=============================================================================

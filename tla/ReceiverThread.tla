--------------------------- MODULE ReceiverThread ---------------------------
(***************************************************************************)
(* The state machine of a receiver thread (src/ReceiverThread.cpp) and the *)
(* checkpoints its Receiver collects (src/Receiver.cpp).                   *)
(*                                                                         *)
(* checkForFinishOrNewCheckpoints runs under the condition variable's lock *)
(* and may run at any time (the wait has a timeout), so it is one step of  *)
(* WAIT_FOR_FINISH_OR_NEW_CHECKPOINT; SEND_WAIT_CMD is the write after the *)
(* lock is released.  The socket is closed on the way to                   *)
(* ACCEPT_WITH_TIMEOUT.  READ_DONE_ACK is sendDoneCmd, blocked in its      *)
(* read.  A command is read and processed in one step.  Binding the port,  *)
(* file chunks (download resumption), version negotiation, heart beats and *)
(* an abort by the application are not part of this module.                *)
(***************************************************************************)
EXTENDS Connections

CONSTANT MaxDiskErrors   \* bound: failing writes to the destination files

ASSUME DiskErrorsAssumption == MaxDiskErrors \in Nat

VARIABLES
    rState,       \* [port]: state of the receiver thread
    rErr,         \* [port]: threadStats_.getLocalErrorCode() is not OK
    rCheckpoint,  \* [port]: checkpoint_
    rVerify,      \* [port]: blocksWaitingVerification_
    ckIndex,      \* [port]: checkpointIndex_
    pendingIndex, \* [port]: pendingCheckpointIndex_
    newCks,       \* [port]: newCheckpoints_
    settings,     \* [port]: senderReadTimeout_ > 0
    control,      \* [port]: state in the ThreadsController
    checkpoints,  \* Receiver::checkpoints_
    started,      \* hasNewTransferStarted_
    diskErrors,   \* failing writes so far
    valid         \* the bytes of the blocks that the receiver trusts

receiverVars == <<rState, rErr, rCheckpoint, rVerify, ckIndex, pendingIndex, newCks,
                  settings, control, checkpoints, started, diskErrors, valid>>

ReceiverStates ==
    {"ACCEPT_FIRST_CONNECTION", "ACCEPT_WITH_TIMEOUT", "SEND_LOCAL_CHECKPOINT",
     "READ_NEXT_CMD", "WAIT_FOR_FINISH_OR_NEW_CHECKPOINT", "SEND_WAIT_CMD",
     "SEND_GLOBAL_CHECKPOINTS", "SEND_DONE_CMD", "READ_DONE_ACK", "FINISH_WITH_ERROR", "END"}

ControlStates == {"RUNNING", "WAITING", "FINISHED"}

ReceiverTypeOK ==
    /\ rState \in [Ports -> ReceiverStates]
    /\ rErr \in [Ports -> BOOLEAN]
    /\ rCheckpoint \in [Ports -> Checkpoint]
    /\ rVerify \in [Ports -> Seq(Source)]
    /\ ckIndex \in [Ports -> Nat]
    /\ pendingIndex \in [Ports -> Nat]
    /\ newCks \in [Ports -> Seq(Checkpoint)]
    /\ settings \in [Ports -> BOOLEAN]
    /\ control \in [Ports -> ControlStates]
    /\ checkpoints \in Seq(Checkpoint)
    /\ started \in BOOLEAN
    /\ diskErrors \in 0..MaxDiskErrors
    /\ valid \in SUBSET (Blocks \X (0..BlockSize))

ReceiverInit ==
    /\ rState = [p \in Ports |-> "ACCEPT_FIRST_CONNECTION"]
    /\ rErr = [p \in Ports |-> FALSE]
    /\ rCheckpoint = [p \in Ports |-> NewCheckpoint(p)]
    /\ rVerify = [p \in Ports |-> <<>>]
    /\ ckIndex = [p \in Ports |-> 0]
    /\ pendingIndex = [p \in Ports |-> 0]
    /\ newCks = [p \in Ports |-> <<>>]
    /\ settings = [p \in Ports |-> FALSE]
    /\ control = [p \in Ports |-> "RUNNING"]
    /\ checkpoints = <<>>
    /\ started = FALSE
    /\ diskErrors = 0
    /\ valid = {}

(* the first n bytes, and all the bytes, that a source still has to deliver *)
BytesOf(s, n) == {<<s.blk, x>> : x \in s.off .. (s.off + n - 1)}

AllBytesOf(s) == BytesOf(s, SizeOf(s))

ReceiverMoves(p, st) == rState' = [rState EXCEPT ![p] = st]

(* Mutation: the error is not recorded. *)
ReceiverFails_NoError(p, st) ==
    /\ ReceiverMoves(p, st)
    /\ rErr' = rErr

ReceiverFails(p, st) ==
    /\ ReceiverMoves(p, st)
    /\ rErr' = [rErr EXCEPT ![p] = TRUE]

(* an error of the connection: acceptWithTimeout starts by closing it and by
   forgetting the blocks that no tag has confirmed yet *)
AcceptAgain(p) ==
    /\ ReceiverFails(p, "ACCEPT_WITH_TIMEOUT")
    /\ ReceiverCloses(p)
    /\ rVerify' = [rVerify EXCEPT ![p] = <<>>]

-----------------------------------------------------------------------------
(* acceptFirstConnection *)
AcceptFirstConnection(p) ==
    /\ rState[p] = "ACCEPT_FIRST_CONNECTION"
    /\ \/ /\ started
          /\ ReceiverMoves(p, "ACCEPT_WITH_TIMEOUT")
          /\ UNCHANGED <<rErr, started, rConn, rOpen>>
       \/ /\ Accept(p)
          /\ started' = TRUE
          /\ ReceiverMoves(p, "READ_NEXT_CMD")
          /\ rErr' = rErr
       \/ /\ ~started   \* max_accept_retries
          /\ rConn[p] = sConn[p]
          /\ ReceiverFails(p, "FINISH_WITH_ERROR")
          /\ UNCHANGED <<started, rConn, rOpen>>
    /\ UNCHANGED <<rCheckpoint, rVerify, ckIndex, pendingIndex, newCks, settings, control,
                   checkpoints, diskErrors, valid, toR, toS, up, sConn, sOpen, listening,
                   breaks>>

(* acceptWithTimeout *)
AcceptWithTimeout(p) ==
    /\ rState[p] = "ACCEPT_WITH_TIMEOUT"
    /\ Accept(p)
    /\ pendingIndex' = [pendingIndex EXCEPT ![p] = ckIndex[p]]
    /\ ReceiverMoves(p, IF rErr[p] THEN "SEND_LOCAL_CHECKPOINT" ELSE "READ_NEXT_CMD")
    /\ rErr' = [rErr EXCEPT ![p] = FALSE]
    /\ UNCHANGED <<rCheckpoint, rVerify, ckIndex, newCks, settings, control, checkpoints,
                   started, diskErrors, valid, toR, toS, up, sConn, sOpen, listening, breaks>>

(* acceptWithTimeout: no connection within the window *)
AcceptTimesOut(p) ==
    /\ rState[p] = "ACCEPT_WITH_TIMEOUT"
    /\ rConn[p] = sConn[p]
    /\ ReceiverFails(p, "FINISH_WITH_ERROR")
    /\ UNCHANGED <<rCheckpoint, rVerify, ckIndex, pendingIndex, newCks, settings, control,
                   checkpoints, started, diskErrors, valid, netVars>>

(* sendLocalCheckpoint *)
SendLocalCheckpoint(p) ==
    /\ rState[p] = "SEND_LOCAL_CHECKPOINT"
    /\ \/ /\ ReceiverWriteOk(p, CheckpointCmd("LOCAL_CHECKPOINT", <<rCheckpoint[p]>>))
          /\ ReceiverMoves(p, "READ_NEXT_CMD")
          /\ UNCHANGED <<rErr, rVerify, toR, rOpen>>
       \/ /\ ReceiverWriteFails(p)
          /\ AcceptAgain(p)
    /\ UNCHANGED <<rCheckpoint, ckIndex, pendingIndex, newCks, settings, control, checkpoints,
                   started, diskErrors, valid, up, sConn, sOpen, rConn, listening, breaks>>

(* Mutation: the checkpoint does not count the blocks. *)
MarkVerified_NotCounted(p, ck, srcs, part) ==
    /\ rCheckpoint' = [rCheckpoint EXCEPT ![p] = ck]
    /\ valid' = valid \cup part \cup UNION {AllBytesOf(srcs[i]) : i \in 1..Len(srcs)}

(* markBlockVerified, for a sequence of sources; part holds the bytes of an
   incomplete block that the checkpoint reports *)
MarkVerified(p, ck, srcs, part) ==
    /\ rCheckpoint' = [rCheckpoint EXCEPT ![p] = [ck EXCEPT !.numBlocks = @ + Len(srcs)]]
    /\ valid' = valid \cup part \cup UNION {AllBytesOf(srcs[i]) : i \in 1..Len(srcs)}

(* markReceivedBlocksVerified is the callback for a tag that is right: every
   read may meet one, which confirms all blocks that wait for verification *)
Confirmed(p) == {<<>>} \cup (IF FooterType = "TAG" THEN {rVerify[p]} ELSE {})

(* readNextCmd: the read fails *)
NextCmdLost(p) ==
    /\ rState[p] \in {"READ_NEXT_CMD", "READ_DONE_ACK"}
    /\ ReceiverReadFails(p)
    /\ \E done \in Confirmed(p) : MarkVerified(p, rCheckpoint[p], done, {})
    /\ AcceptAgain(p)
    /\ UNCHANGED <<ckIndex, pendingIndex, newCks, settings, control, checkpoints, started,
                   diskErrors, toS, up, sConn, sOpen, rConn, listening, breaks>>

(* processSettingsCmd and processSizeCmd *)
ProcessSettingsOrSize(p) ==
    /\ rState[p] = "READ_NEXT_CMD"
    /\ \/ /\ ReceiverReads(p, "SETTINGS")
          /\ settings' = [settings EXCEPT ![p] = TRUE]
       \/ /\ ReceiverReads(p, "SIZE")
          /\ settings' = settings
    /\ ReceiverConsumes(p)
    /\ UNCHANGED <<rState, rErr, rCheckpoint, rVerify, ckIndex, pendingIndex, newCks, control,
                   checkpoints, started, diskErrors, valid, toS, up, sConn, sOpen, rConn,
                   rOpen, listening, breaks>>

(* processFileCmd: the whole block arrives.  With tags the blocks before this
   one are confirmed if a tag lies inside it, and this one has to wait. *)
ProcessFileCmd(p) ==
    /\ rState[p] = "READ_NEXT_CMD"
    /\ ReceiverReads(p, "FILE")
    /\ ReceiverConsumes(p)
    /\ LET m == Head(toR[p][rConn[p]])
           ck == ResetLastBlockDetails(rCheckpoint[p])
       IN  /\ m.part = "WHOLE"
           /\ \/ /\ FooterType # "TAG"
                 /\ MarkVerified(p, ck, <<m.src>>, {})
                 /\ rVerify' = rVerify
              \/ /\ FooterType = "TAG"
                 /\ \E done \in Confirmed(p) :
                       /\ MarkVerified(p, ck, done, {})
                       /\ rVerify' = [rVerify EXCEPT
                             ![p] = IF done = <<>> THEN Append(@, m.src) ELSE <<m.src>>]
    /\ ckIndex' = [ckIndex EXCEPT ![p] = pendingIndex[p]]
    /\ UNCHANGED <<rState, rErr, pendingIndex, newCks, settings, control, checkpoints, started,
                   diskErrors, toS, up, sConn, sOpen, rConn, rOpen, listening, breaks>>

(* processFileCmd: the connection ends inside the block *)
PartialFileCmd(p) ==
    /\ rState[p] = "READ_NEXT_CMD"
    /\ ReceiverReads(p, "FILE")
    /\ LET m == Head(toR[p][rConn[p]])
           ck == ResetLastBlockDetails(rCheckpoint[p])
           trusted == m.part = "DATA" /\ FooterType = "NO_FOOTER"
       IN  /\ m.part # "WHOLE"
           /\ \E done \in Confirmed(p) :
                 MarkVerified(p, IF trusted THEN SetLastBlockDetails(ck, m.src, m.got) ELSE ck,
                              done, IF trusted THEN BytesOf(m.src, m.got) ELSE {})
           /\ ckIndex' = [ckIndex EXCEPT ![p] = IF m.part = "DATA" THEN pendingIndex[p] ELSE @]
    /\ AcceptAgain(p)
    /\ UNCHANGED <<pendingIndex, newCks, settings, control, checkpoints, started, diskErrors,
                   toS, up, sConn, sOpen, rConn, listening, breaks>>

(* processFileCmd: the footer's checksum is not the one of the data received *)
ChecksumMismatch(p) ==
    /\ rState[p] = "READ_NEXT_CMD"
    /\ FooterType = "CHECKSUM_FOOTER"
    /\ breaks < MaxBreaks
    /\ ReceiverReads(p, "FILE")
    /\ Head(toR[p][rConn[p]]).part = "WHOLE"
    /\ rCheckpoint' = [rCheckpoint EXCEPT ![p] = ResetLastBlockDetails(@)]
    /\ ckIndex' = [ckIndex EXCEPT ![p] = pendingIndex[p]]
    /\ AcceptAgain(p)
    /\ breaks' = breaks + 1
    /\ UNCHANGED <<pendingIndex, newCks, settings, control, checkpoints, started, diskErrors,
                   valid, toS, up, sConn, sOpen, rConn, listening>>

(* processFileCmd: a write to the file fails after n bytes; sendAbortCmd does
   not look at the result of its write *)
FileWriteFails(p) ==
    /\ rState[p] = "READ_NEXT_CMD"
    /\ diskErrors < MaxDiskErrors
    /\ ReceiverReads(p, "FILE")
    /\ LET m == Head(toR[p][rConn[p]])
           ck == ResetLastBlockDetails(rCheckpoint[p])
           trusted == FooterType = "NO_FOOTER"
       IN  /\ m.part # "HEADER"
           /\ \E n \in 0..(IF trusted THEN m.got ELSE 0), done \in Confirmed(p) :
                 /\ MarkVerified(p, IF trusted THEN SetLastBlockDetails(ck, m.src, n) ELSE ck,
                                 done, IF trusted THEN BytesOf(m.src, n) ELSE {})
                 /\ rVerify' = [rVerify EXCEPT ![p] = IF done = <<>> THEN @ ELSE <<>>]
    /\ ckIndex' = [ckIndex EXCEPT ![p] = pendingIndex[p]]
    /\ ReceiverWriteOk(p, Cmd("ABORT"))
    /\ ReceiverFails(p, "FINISH_WITH_ERROR")
    /\ ReceiverCloses(p)
    /\ diskErrors' = diskErrors + 1
    /\ UNCHANGED <<pendingIndex, newCks, settings, control, checkpoints, started, up, sConn,
                   sOpen, rConn, listening, breaks>>

(* processDoneCmd, and waitForFinishOrNewCheckpoint up to its first look *)
ProcessDone(p) ==
    /\ rState[p] = "READ_NEXT_CMD"
    /\ ReceiverReads(p, "DONE")
    /\ ReceiverConsumes(p)
    /\ ckIndex' = [ckIndex EXCEPT ![p] = pendingIndex[p]]
    /\ control' = [control EXCEPT ![p] = "WAITING"]
    /\ \E done \in Confirmed(p) :
          /\ MarkVerified(p, rCheckpoint[p], done, {})
          /\ rVerify' = [rVerify EXCEPT ![p] = IF done = <<>> THEN @ ELSE <<>>]
    /\ ReceiverMoves(p, "WAIT_FOR_FINISH_OR_NEW_CHECKPOINT")
    /\ UNCHANGED <<rErr, pendingIndex, newCks, settings, checkpoints, started, diskErrors,
                   toS, up, sConn, sOpen, rConn, rOpen, listening, breaks>>

-----------------------------------------------------------------------------
(* Mutation: off by one in the checkpoints that are new. *)
NewCheckpoints_SkipsFirst(p) == SubSeq(checkpoints, ckIndex[p] + 2, Len(checkpoints))

NewCheckpoints(p) == SubSeq(checkpoints, ckIndex[p] + 1, Len(checkpoints))

(* Mutation: nobody waits for the other threads. *)
OtherThreadsRunning_Never(p) == FALSE

OtherThreadsRunning(p) == \E q \in Ports \ {p} : control[q] = "RUNNING"

(* checkForFinishOrNewCheckpoints: new checkpoints to pass on, nobody left to
   wait for, or (after the wait has timed out) a WAIT command to write once
   the lock is released.  Bound: one WAIT on its way at a time. *)
CheckForFinishOrNewCheckpoints(p) ==
    /\ rState[p] = "WAIT_FOR_FINISH_OR_NEW_CHECKPOINT"
    /\ \/ /\ NewCheckpoints(p) # <<>>
          /\ newCks' = [newCks EXCEPT ![p] = NewCheckpoints(p)]
          /\ control' = [control EXCEPT ![p] = "RUNNING"]
          /\ ReceiverMoves(p, "SEND_GLOBAL_CHECKPOINTS")
       \/ /\ NewCheckpoints(p) = <<>>
          /\ ~OtherThreadsRunning(p)
          /\ control' = [control EXCEPT ![p] = "FINISHED"]
          /\ ReceiverMoves(p, "SEND_DONE_CMD")
          /\ newCks' = newCks
       \/ /\ NewCheckpoints(p) = <<>>
          /\ OtherThreadsRunning(p)
          /\ toS[p][rConn[p]] = <<>> \/ ~ReachesSender(p)
          /\ ReceiverMoves(p, "SEND_WAIT_CMD")
          /\ UNCHANGED <<newCks, control>>
    /\ UNCHANGED <<rErr, rCheckpoint, rVerify, ckIndex, pendingIndex, settings, checkpoints,
                   started, diskErrors, valid, netVars>>

(* waitForFinishOrNewCheckpoint: WAIT keeps the sender thread from timing out;
   by now the other threads may have finished or left a checkpoint *)
SendWait(p) ==
    /\ rState[p] = "SEND_WAIT_CMD"
    /\ \/ /\ ReachesSender(p)
          /\ ReceiverWriteOk(p, Cmd("WAIT"))
          /\ ReceiverMoves(p, "WAIT_FOR_FINISH_OR_NEW_CHECKPOINT")
          /\ UNCHANGED <<rErr, rVerify, control, toR, rOpen>>
       \/ /\ ReceiverWriteFails(p)
          /\ AcceptAgain(p)
          /\ control' = [control EXCEPT ![p] = "RUNNING"]
    /\ UNCHANGED <<rCheckpoint, ckIndex, pendingIndex, newCks, settings, checkpoints, started,
                   diskErrors, valid, up, sConn, sOpen, rConn, listening, breaks>>

(* sendGlobalCheckpoint *)
SendGlobalCheckpoint(p) ==
    /\ rState[p] = "SEND_GLOBAL_CHECKPOINTS"
    /\ \/ /\ ReceiverWriteOk(p, CheckpointCmd("ERR", newCks[p]))
          /\ pendingIndex' = [pendingIndex EXCEPT ![p] = ckIndex[p] + Len(newCks[p])]
          /\ ReceiverMoves(p, "READ_NEXT_CMD")
          /\ UNCHANGED <<rErr, rVerify, toR, rOpen>>
       \/ /\ ReceiverWriteFails(p)
          /\ AcceptAgain(p)
          /\ pendingIndex' = pendingIndex
    /\ UNCHANGED <<rCheckpoint, ckIndex, newCks, settings, control, checkpoints, started,
                   diskErrors, valid, up, sConn, sOpen, rConn, listening, breaks>>

(* sendDoneCmd up to its read *)
SendDone(p) ==
    /\ rState[p] = "SEND_DONE_CMD"
    /\ \/ /\ ReceiverWriteOk(p, Cmd("DONE"))
          /\ ReceiverMoves(p, "READ_DONE_ACK")
          /\ UNCHANGED <<rErr, rVerify, toR, rOpen>>
       \/ /\ ReceiverWriteFails(p)
          /\ AcceptAgain(p)
    /\ UNCHANGED <<rCheckpoint, ckIndex, pendingIndex, newCks, settings, control, checkpoints,
                   started, diskErrors, valid, up, sConn, sOpen, rConn, listening, breaks>>

(* sendDoneCmd: the acknowledgement and the end of the stream arrive *)
ReadDoneAck(p) ==
    /\ rState[p] = "READ_DONE_ACK"
    /\ ReceiverReads(p, "DONE")
    /\ MarkVerified(p, rCheckpoint[p], rVerify[p], {})
    /\ rVerify' = [rVerify EXCEPT ![p] = <<>>]
    /\ IF FooterType = "TAG" THEN ReceiverWriteOk(p, Cmd("EOS")) ELSE toS' = toS
    /\ ReceiverCloses(p)
    /\ listening' = [listening EXCEPT ![p] = FALSE]
    /\ ReceiverMoves(p, "END")
    /\ UNCHANGED <<rErr, ckIndex, pendingIndex, newCks, settings, control, checkpoints,
                   started, diskErrors, up, sConn, sOpen, rConn, breaks>>

(* Mutation: the thread is not marked FINISHED, and the others wait for it. *)
FinishWithError_StaysRunning(p) ==
    /\ rState[p] = "FINISH_WITH_ERROR"
    /\ checkpoints' = Append(checkpoints, rCheckpoint[p])
    /\ listening' = [listening EXCEPT ![p] = FALSE]
    /\ ReceiverMoves(p, "END")
    /\ UNCHANGED <<rErr, rCheckpoint, rVerify, ckIndex, pendingIndex, newCks, settings, control,
                   started, diskErrors, valid, toR, toS, up, sConn, sOpen, rConn, rOpen, breaks>>

(* finishWithError: the sockets are closed, and the checkpoint is there for
   the other threads to pass on *)
FinishWithError(p) ==
    /\ rState[p] = "FINISH_WITH_ERROR"
    /\ checkpoints' = Append(checkpoints, rCheckpoint[p])
    /\ control' = [control EXCEPT ![p] = "FINISHED"]
    /\ listening' = [listening EXCEPT ![p] = FALSE]
    /\ ReceiverMoves(p, "END")
    /\ UNCHANGED <<rErr, rCheckpoint, rVerify, ckIndex, pendingIndex, newCks, settings,
                   started, diskErrors, valid, toR, toS, up, sConn, sOpen, rConn, rOpen, breaks>>

(* What a handler relies on when it is called. *)
ReceiverInv ==
    \A p \in Ports :
        rState[p] \notin {"ACCEPT_FIRST_CONNECTION", "ACCEPT_WITH_TIMEOUT",
                         "FINISH_WITH_ERROR", "END"} => rConn[p] # 0
=============================================================================

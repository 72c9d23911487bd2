-------------------------- MODULE ChunksHandshake --------------------------
(***************************************************************************)
(* Download resumption: how the list of file chunks of the receiver gets   *)
(* to the sender.  One of the receiver threads sends the list, in pieces   *)
(* that fit its buffer, while the others keep their senders waiting; when  *)
(* its sender has acknowledged the list, the others are told to go on.     *)
(* Any connection may break at any point and is made again.                *)
(***************************************************************************)
EXTENDS FileChunks, FiniteSets

CONSTANTS
    Threads,
    List,       \* fileChunksInfo_ of the receiver: the lengths of its entries
    BufSize,
    MaxBreaks   \* bound

HeaderLen == 1  \* the length of a piece comes before it
InTransit == 2  \* pieces that the connection holds

VARIABLES
    conn,       \* the connection of each thread: "none", "open", "broken"
    snd,        \* sender threads: state, whether an error is set, list read
    rcv,        \* receiver threads: state, error, numEntriesWritten
    up, down,   \* messages on the way to the receiver and to the sender
    funnel,     \* SEND_FILE_CHUNKS_FUNNEL
    chunks,     \* the list given to the sender's queue, if received
    received,   \* fileChunksReceived_
    header,     \* addTransferLogHeader was called
    breaks

vars == <<conn, snd, rcv, up, down, funnel, chunks, received, header, breaks>>

Init ==
    /\ conn = [t \in Threads |-> "none"]
    /\ snd = [t \in Threads |-> [pc |-> "CONNECT", err |-> FALSE, list |-> <<>>]]
    /\ rcv = [t \in Threads |-> [pc |-> "ACCEPT", err |-> FALSE, written |-> 0]]
    /\ up = [t \in Threads |-> <<>>]
    /\ down = [t \in Threads |-> <<>>]
    /\ funnel = "START"
    /\ chunks = <<>>
    /\ received = FALSE
    /\ header = FALSE
    /\ breaks = 0

-----------------------------------------------------------------------------
(* Connections.  A write to a connection that is broken fails or is lost; a *)
(* read from one fails.  A thread that gives a connection up breaks it.     *)

WriteUp(t, msg) ==
    /\ up' = IF conn[t] = "open" THEN [up EXCEPT ![t] = Append(@, msg)] ELSE up
    /\ UNCHANGED <<down, conn>>
WriteDown(t, msg) ==
    /\ down' = IF conn[t] = "open" THEN [down EXCEPT ![t] = Append(@, msg)] ELSE down
    /\ UNCHANGED <<up, conn>>

Broken(t) == conn[t] = "broken"

Drop(t) ==
    /\ conn' = [conn EXCEPT ![t] = "broken"]
    /\ up' = [up EXCEPT ![t] = <<>>]
    /\ down' = [down EXCEPT ![t] = <<>>]

ReadsDown(t) == down[t] # <<>> /\ down' = [down EXCEPT ![t] = Tail(@)]
                /\ UNCHANGED <<up, conn>>
ReadsUp(t) == up[t] # <<>> /\ up' = [up EXCEPT ![t] = Tail(@)]
              /\ UNCHANGED <<down, conn>>

Break(t) ==
    /\ breaks < MaxBreaks
    /\ conn[t] = "open"
    /\ breaks' = breaks + 1
    /\ Drop(t)
    /\ UNCHANGED <<snd, rcv, funnel, chunks, received, header>>

(***************************************************************************)
(* CONNECT and ACCEPT_WITH_TIMEOUT: a side that saw an error exchanges a   *)
(* local checkpoint first.                                                 *)
(***************************************************************************)
Connect(t) ==
    /\ snd[t].pc = "CONNECT"
    /\ rcv[t].pc = "ACCEPT"
    /\ conn' = [conn EXCEPT ![t] = "open"]
    /\ up' = [up EXCEPT ![t] = <<>>]
    /\ down' = [down EXCEPT ![t] = <<>>]
    /\ snd' = [snd EXCEPT ![t] =
                 [pc |-> IF @.err THEN "READ_LOCAL_CHECKPOINT" ELSE "SEND_SETTINGS",
                  err |-> FALSE, list |-> <<>>]]
    /\ rcv' = [rcv EXCEPT ![t] =
                 [pc |-> IF @.err THEN "SEND_LOCAL_CHECKPOINT" ELSE "READ_NEXT_CMD",
                  err |-> FALSE, written |-> 0]]
    /\ UNCHANGED <<funnel, chunks, received, header, breaks>>

-----------------------------------------------------------------------------
(* Sender threads *)

SenderGoto(t, state) == snd' = [snd EXCEPT ![t].pc = state]

(* CHECK_FOR_ABORT and back to CONNECT, with an error set *)
SenderReconnects(t) ==
    /\ snd' = [snd EXCEPT ![t].pc = "CONNECT", ![t].err = TRUE]
    /\ Drop(t)

SenderEnds(t) == snd' = [snd EXCEPT ![t].pc = "END", ![t].err = TRUE]

senderRest == <<rcv, funnel, header, breaks>>

SenderReadFails(t) ==
    /\ snd[t].pc \in {"READ_LOCAL_CHECKPOINT", "READ_FILE_CHUNKS", "READ_LIST",
                      "SEND_BLOCKS"}
    /\ Broken(t)
    /\ SenderReconnects(t)
    /\ UNCHANGED <<senderRest, chunks, received>>

SenderWriteFails(t) ==
    /\ snd[t].pc \in {"SEND_SETTINGS", "WRITE_ACK"}
    /\ Broken(t)
    /\ SenderReconnects(t)
    /\ UNCHANGED <<senderRest, chunks, received>>

ReadLocalCheckPoint(t) ==
    /\ snd[t].pc = "READ_LOCAL_CHECKPOINT"
    /\ ReadsDown(t)
    /\ IF Head(down[t]).cmd = "LOCAL_CHECKPOINT"
       THEN SenderGoto(t, "SEND_SETTINGS")
       ELSE SenderEnds(t)
    /\ UNCHANGED <<senderRest, chunks, received>>

SendSettings(t) ==
    /\ snd[t].pc = "SEND_SETTINGS"
    /\ WriteUp(t, "SETTINGS")
    /\ SenderGoto(t, "READ_FILE_CHUNKS")
    /\ UNCHANGED <<senderRest, chunks, received>>

ReadFileChunks(t) ==
    /\ snd[t].pc = "READ_FILE_CHUNKS"
    /\ ReadsDown(t)
    /\ LET cmd == Head(down[t]).cmd
       IN  CASE cmd \in {"WAIT", "LOCAL_CHECKPOINT"} -> UNCHANGED snd
             [] cmd = "ACK" ->
                  IF received THEN SenderGoto(t, "SEND_BLOCKS")
                              ELSE SenderEnds(t)
             [] cmd = "CHUNKS" -> snd' = [snd EXCEPT ![t].pc = "READ_LIST",
                                                     ![t].list = <<>>]
    /\ UNCHANGED <<senderRest, chunks, received>>

ReadList(t) ==
    /\ snd[t].pc = "READ_LIST"
    /\ Len(snd[t].list) < Len(List)
    /\ ReadsDown(t)
    /\ snd' = [snd EXCEPT ![t].list = @ \o Head(down[t]).entries]
    /\ UNCHANGED <<senderRest, chunks, received>>

(* setFileChunksInfo: the first list counts. *)
SetFileChunksInfo(list) ==
    /\ chunks' = IF received THEN chunks ELSE list
    /\ received' = TRUE

ListRead(t) ==
    /\ snd[t].pc = "READ_LIST"
    /\ Len(snd[t].list) >= Len(List)
    /\ IF Len(snd[t].list) > Len(List)
       THEN SenderEnds(t) /\ UNCHANGED <<chunks, received>>
       ELSE SetFileChunksInfo(snd[t].list) /\ SenderGoto(t, "WRITE_ACK")
    /\ UNCHANGED <<senderRest, up, down, conn>>

WriteAck(t) ==
    /\ snd[t].pc = "WRITE_ACK"
    /\ WriteUp(t, "ACK")
    /\ SenderGoto(t, "SEND_BLOCKS")
    /\ UNCHANGED <<senderRest, chunks, received>>

SenderStep(t) ==
    \/ SenderReadFails(t) \/ SenderWriteFails(t) \/ ReadLocalCheckPoint(t)
    \/ SendSettings(t) \/ ReadFileChunks(t) \/ ReadList(t) \/ ListRead(t)
    \/ WriteAck(t)

-----------------------------------------------------------------------------
(* Receiver threads *)

ReceiverGoto(t, state) == rcv' = [rcv EXCEPT ![t].pc = state]

AcceptAgain(t) ==
    /\ rcv' = [rcv EXCEPT ![t].pc = "ACCEPT", ![t].err = TRUE]
    /\ Drop(t)

receiverRest == <<snd, chunks, received, breaks>>

NotifyFail == funnel' = "START"

(* A thread that fails while it sends the list gives the funnel back. *)
SendingList == {"WRITE_LIST", "READ_ACK"}

ReceiverFails(t) ==
    /\ rcv[t].pc \in {"SEND_LOCAL_CHECKPOINT", "READ_NEXT_CMD", "SEND_FILE_CHUNKS",
                      "READY"} \cup SendingList
    /\ Broken(t)
    /\ rcv[t].pc = "SEND_FILE_CHUNKS" => funnel # "START"
    /\ AcceptAgain(t)
    /\ IF rcv[t].pc \in SendingList THEN NotifyFail ELSE UNCHANGED funnel
    /\ UNCHANGED <<receiverRest, header>>

SendLocalCheckpoint(t) ==
    /\ rcv[t].pc = "SEND_LOCAL_CHECKPOINT"
    /\ WriteDown(t, [cmd |-> "LOCAL_CHECKPOINT"])
    /\ ReceiverGoto(t, "READ_NEXT_CMD")
    /\ UNCHANGED <<receiverRest, funnel, header>>

ProcessSettingsCmd(t) ==
    /\ rcv[t].pc = "READ_NEXT_CMD"
    /\ ReadsUp(t)
    /\ ReceiverGoto(t, "SEND_FILE_CHUNKS")
    /\ UNCHANGED <<receiverRest, funnel, header>>

SendFunnelEnd(t) ==
    /\ rcv[t].pc = "SEND_FILE_CHUNKS"
    /\ funnel = "END"
    /\ WriteDown(t, [cmd |-> "ACK"])
    /\ ReceiverGoto(t, "READY")
    /\ UNCHANGED <<receiverRest, funnel, header>>

(* One WAIT per waiting time: the sender has read the one before. *)
SendFunnelProgress(t) ==
    /\ rcv[t].pc = "SEND_FILE_CHUNKS"
    /\ funnel = "PROGRESS"
    /\ down[t] = <<>>
    /\ WriteDown(t, [cmd |-> "WAIT"])
    /\ UNCHANGED <<receiverRest, rcv, funnel, header>>

SendFunnelStart(t) ==
    /\ rcv[t].pc = "SEND_FILE_CHUNKS"
    /\ funnel = "START"
    /\ funnel' = "PROGRESS"
    /\ WriteDown(t, [cmd |-> "CHUNKS"])
    /\ rcv' = [rcv EXCEPT ![t].pc = "WRITE_LIST", ![t].written = 0]
    /\ UNCHANGED <<receiverRest, header>>

WriteList(t) ==
    /\ rcv[t].pc = "WRITE_LIST"
    /\ rcv[t].written < Len(List)
    /\ Len(down[t]) < InTransit
    /\ LET entries == EncodeFileChunksInfoList(List, HeaderLen, BufSize,
                                               rcv[t].written)
       IN  /\ WriteDown(t, [cmd |-> "PIECE", entries |-> entries])
           /\ rcv' = [rcv EXCEPT ![t].written = @ + Len(entries)]
    /\ UNCHANGED <<receiverRest, funnel, header>>

ListWritten(t) ==
    /\ rcv[t].pc = "WRITE_LIST"
    /\ rcv[t].written >= Len(List)
    /\ ReceiverGoto(t, "READ_ACK")
    /\ UNCHANGED <<receiverRest, up, down, conn, funnel, header>>

ReadAck(t) ==
    /\ rcv[t].pc = "READ_ACK"
    /\ ReadsUp(t)
    /\ ReceiverGoto(t, "ADD_HEADER")
    /\ UNCHANGED <<receiverRest, funnel, header>>

(* addTransferLogHeader, then notifySuccess *)
AddTransferLogHeader(t) ==
    /\ rcv[t].pc = "ADD_HEADER"
    /\ header' = TRUE
    /\ funnel' = "END"
    /\ ReceiverGoto(t, "READY")
    /\ UNCHANGED <<receiverRest, up, down, conn>>

ReceiverStep(t) ==
    \/ ReceiverFails(t) \/ SendLocalCheckpoint(t) \/ ProcessSettingsCmd(t)
    \/ SendFunnelEnd(t) \/ SendFunnelProgress(t) \/ SendFunnelStart(t)
    \/ WriteList(t) \/ ListWritten(t) \/ ReadAck(t) \/ AddTransferLogHeader(t)

Next ==
    \E t \in Threads : Connect(t) \/ SenderStep(t) \/ ReceiverStep(t) \/ Break(t)

(* Every thread keeps running; that a connection breaks is never owed. *)
Fairness ==
    \A t \in Threads :
        /\ WF_vars(Connect(t))
        /\ WF_vars(SenderStep(t))
        /\ WF_vars(ReceiverStep(t))

Spec == Init /\ [][Next]_vars

FairSpec == Spec /\ Fairness

-----------------------------------------------------------------------------
(* Properties *)

Indices == [i \in DOMAIN List |-> i]

(***************************************************************************)
(* No sender thread takes blocks from the queue before the queue has the   *)
(* receiver's list, and the list is the one the receiver has: every entry  *)
(* once and in order, whatever pieces it came in and however often it was  *)
(* sent (Sender::setFileChunksInfo, Protocol::encodeFileChunksInfoList).   *)
(***************************************************************************)
ListBeforeBlocks ==
    /\ \A t \in Threads : snd[t].pc = "SEND_BLOCKS" => received
    /\ received => chunks = Indices

(***************************************************************************)
(* Once connections stop breaking, every thread gets to send blocks: no    *)
(* failure leaves the others waiting for a list that nobody sends.         *)
(***************************************************************************)
AllSendBlocks == <>[](\A t \in Threads : snd[t].pc = "SEND_BLOCKS")
=============================================================================

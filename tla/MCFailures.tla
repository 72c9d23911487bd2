----------------------------- MODULE MCFailures -----------------------------
(***************************************************************************)
(* Transfer for TLC in six settings, one behaviour in one setting: the    *)
(* variable part says in which.                                            *)
(*   no_footer    blocks without a footer: what arrived of a block is      *)
(*                kept, and the next send skips it                         *)
(*   reconnects   one port whose connection fails twice, and a write       *)
(*   relay        a second failure hits the thread that passes on the      *)
(*                checkpoint of the first                                  *)
(*   three_ports  two threads can pass on the checkpoint of a third        *)
(*   tags         an encrypted connection whose tags confirm the blocks    *)
(*   late         a thread may take longer than the accept window from the *)
(*                write of a block to addSource                            *)
(***************************************************************************)
EXTENDS TLC

CONSTANTS p1, p2, p3, Blocks, ZeroBlock, MaxTransferRetries, PromptAddSource

VARIABLES part, toR, toS, up, sConn, sOpen, rConn, rOpen, listening, breaks, sState, sErr,
          noProgress, sizeSent, cur, sent, hist, toApply, queue, dequeued, aborted, rejected,
          finished, rState, rErr, rCheckpoint, rVerify, ckIndex, pendingIndex, newCks,
          settings, control, checkpoints, started, diskErrors, valid

OnePort == {p1}
TwoPorts == {p1, p2}
ThreePorts == {p1, p2, p3}

NoFooter == INSTANCE MCTransfer WITH Ports <- TwoPorts, BlockSize <- 2,
                FooterType <- "NO_FOOTER", MaxConns <- 2, MaxBreaks <- 1,
                MaxDiskErrors <- 0, SendSize <- FALSE
Reconnects == INSTANCE MCTransfer WITH Ports <- OnePort, BlockSize <- 2,
                FooterType <- "NO_FOOTER", MaxConns <- 3, MaxBreaks <- 2,
                MaxDiskErrors <- 1, SendSize <- TRUE
Relay == INSTANCE MCTransfer WITH Ports <- TwoPorts, BlockSize <- 1,
                FooterType <- "CHECKSUM_FOOTER", MaxConns <- 3, MaxBreaks <- 2,
                MaxDiskErrors <- 0, SendSize <- FALSE
Three == INSTANCE MCTransfer WITH Ports <- ThreePorts, BlockSize <- 1,
                FooterType <- "CHECKSUM_FOOTER", MaxConns <- 1, MaxBreaks <- 1,
                MaxDiskErrors <- 0, SendSize <- FALSE
Tags == INSTANCE MCTransfer WITH Ports <- OnePort, BlockSize <- 1,
                FooterType <- "TAG", MaxConns <- 4, MaxBreaks <- 3,
                MaxDiskErrors <- 1, SendSize <- TRUE
Late == INSTANCE MCTransfer WITH Ports <- TwoPorts, BlockSize <- 1,
                FooterType <- "CHECKSUM_FOOTER", MaxConns <- 2, MaxBreaks <- 2,
                MaxDiskErrors <- 0, SendSize <- FALSE, PromptAddSource <- FALSE

Init ==
    \/ part = "no_footer" /\ NoFooter!Init
    \/ part = "reconnects" /\ Reconnects!Init
    \/ part = "relay" /\ Relay!ConnectedInit
    \/ part = "three_ports" /\ Three!ConnectedInit
    \/ part = "tags" /\ Tags!Init
    \/ part = "late" /\ Late!ConnectedInit

InNoFooter == part = "no_footer" /\ NoFooter!Next /\ UNCHANGED part
InReconnects == part = "reconnects" /\ Reconnects!Next /\ UNCHANGED part
InRelay == part = "relay" /\ Relay!Next /\ UNCHANGED part
InThree == part = "three_ports" /\ Three!Next /\ UNCHANGED part
InTags == part = "tags" /\ Tags!Next /\ UNCHANGED part
InLate == part = "late" /\ Late!Next /\ UNCHANGED part

Next == InNoFooter \/ InReconnects \/ InRelay \/ InThree \/ InTags \/ InLate

Spec == Init /\ [][Next]_<<part, NoFooter!vars>>

(* The ports are interchangeable. *)
PortSymmetry == Permutations(ThreePorts)

(***************************************************************************)
(* When the sender reports success, the receiver has every block,          *)
(* whichever connections failed and whichever thread passed on the         *)
(* checkpoint of another, if no thread is late with addSource.             *)
(***************************************************************************)
SuccessMeansDelivered ==
    CASE part = "no_footer" -> NoFooter!SuccessMeansDelivered
      [] part = "reconnects" -> Reconnects!SuccessMeansDelivered
      [] part = "relay" -> Relay!SuccessMeansDelivered
      [] part = "three_ports" -> Three!SuccessMeansDelivered
      [] part = "tags" -> Tags!SuccessMeansDelivered
      [] OTHER -> TRUE

(***************************************************************************)
(* The bytes of a block that the sender skips after a checkpoint are with  *)
(* the receiver: setLastBlockDetails counts what was written, and          *)
(* markSourceAsFailed moves the offset of the very block it is about.      *)
(***************************************************************************)
SkippedBytesDelivered ==
    CASE part = "no_footer" -> NoFooter!SkippedBytesDelivered
      [] part = "reconnects" -> Reconnects!SkippedBytesDelivered
      [] OTHER -> TRUE

(***************************************************************************)
(* validateCheckpoint is called with numbers that never go down: a history *)
(* refuses a checkpoint, on either path it can reach the sender by, only   *)
(* when it counts a block that its owner has not yet passed to addSource,  *)
(* or when, without a footer, it reports a part of a block where the last  *)
(* one reported nothing, or nothing where that was a part of the block     *)
(* with seqId 0.                                                           *)
(***************************************************************************)
RefusalsExplained ==
    CASE part = "no_footer" -> NoFooter!RefusalsExplained
      [] part = "reconnects" -> Reconnects!RefusalsExplained
      [] part = "relay" -> Relay!RefusalsExplained
      [] part = "three_ports" -> Three!RefusalsExplained
      [] part = "tags" -> Tags!RefusalsExplained
      [] part = "late" -> Late!RefusalsExplained
=============================================================================

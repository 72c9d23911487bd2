----------------------- MODULE ThreadTransferHistory -----------------------
(***************************************************************************)
(* The history a sender thread keeps of the sources it has written to its  *)
(* connection (src/util/ThreadTransferHistory.cpp) and the checkpoints a   *)
(* receiver thread answers with (struct Checkpoint of src/Protocol.h).     *)
(*                                                                         *)
(* Every method of the class runs under mutex_, so each one is an operator *)
(* from a history record to a history record; the processes that interleave*)
(* the calls are in Transfer.                                              *)
(*                                                                         *)
(* A source is a block of a file and the offset inside the block at which  *)
(* the next send starts (advanceOffset moves it); (seqId, offset) of the   *)
(* code is the pair (blk, off).  The statistics of sources and threads are *)
(* left out.                                                               *)
(***************************************************************************)
EXTENDS Integers, Sequences, FiniteSets

CONSTANTS
    Ports,        \* the ports of the transfer: one sender and one receiver thread each
    Blocks,       \* the blocks the directory queue holds
    BlockSize,    \* bytes of a block
    ZeroBlock     \* the block with seqId 0 and offset 0

ASSUME BlockSizeAssumption == BlockSize \in Nat \ {0}

ASSUME BlocksAssumption == IsFiniteSet(Blocks)

Source == [blk : Blocks, off : 0..BlockSize]

SizeOf(s) == BlockSize - s.off

(***************************************************************************)
(* resetLastBlockDetails and the default constructor write seqId 0 and     *)
(* offset 0.  That is also the identity of the first block of the first    *)
(* file when setPreviouslyReceivedChunks, for a resumed download, has had  *)
(* an empty list: the ids then start at 0 again.  In other transfers they  *)
(* start at 1, and ZeroBlock is none of Blocks.                            *)
(***************************************************************************)
Checkpoint ==
    {ck \in [port : Ports, numBlocks : Nat, blk : Blocks \cup {ZeroBlock},
             off : 0..BlockSize, bytes : 0..BlockSize] :
        ck.off + ck.bytes <= BlockSize}

NewCheckpoint(p) ==
    [port |-> p, numBlocks |-> 0, blk |-> ZeroBlock, off |-> 0, bytes |-> 0]

(* Mutation: a block counts as received as soon as its header has been read. *)
ResetLastBlockDetails_Counts(ck) ==
    [NewCheckpoint(ck.port) EXCEPT !.numBlocks = ck.numBlocks + 1]

ResetLastBlockDetails(ck) == [NewCheckpoint(ck.port) EXCEPT !.numBlocks = ck.numBlocks]

SetLastBlockDetails(ck, s, n) ==
    [port |-> ck.port, numBlocks |-> ck.numBlocks, blk |-> s.blk, off |-> s.off, bytes |-> n]

NoCheckpoint == [none |-> TRUE]

History ==
    [src : Seq(Source), acked : Nat, last : Checkpoint \cup {NoCheckpoint},
     global : BOOLEAN, inUse : BOOLEAN]

NewHistory ==
    [src |-> <<>>, acked |-> 0, last |-> NoCheckpoint,
     global |-> FALSE, inUse |-> TRUE]

-----------------------------------------------------------------------------
(* Mutation: the offset is not part of the identity of a source. *)
MarkSourceAsFailed_AnyOffset(s, ck) ==
    IF ck # NoCheckpoint /\ ck.blk = s.blk
    THEN [s EXCEPT !.off = s.off + ck.bytes]
    ELSE s

(***************************************************************************)
(* markSourceAsFailed: the bytes the checkpoint reports are skipped by the *)
(* next send only when the checkpoint is about this very source.  The      *)
(* branch for checkpoints without a seqId (protocols older than            *)
(* CHECKPOINT_SEQ_ID_VERSION) is not modelled.                             *)
(***************************************************************************)
MarkSourceAsFailed(s, ck) ==
    IF /\ ck # NoCheckpoint
       /\ ck.blk = s.blk /\ ck.off = s.off
    THEN [s EXCEPT !.off = s.off + ck.bytes]
    ELSE s

(* Mutation: a checkpoint must be about more blocks than the one before. *)
ValidateCheckpoint_MustGrow(h, ck, isGlobal) ==
    IF h.last # NoCheckpoint /\ ck.numBlocks <= h.last.numBlocks
    THEN "INVALID_CHECKPOINT"
    ELSE "OK"

ValidateCheckpoint(h, ck, isGlobal) ==
    CASE h.last = NoCheckpoint            -> "OK"
      [] h.last # NoCheckpoint /\ ck.numBlocks < h.last.numBlocks -> "INVALID_CHECKPOINT"
      [] h.last # NoCheckpoint /\ ck.numBlocks > h.last.numBlocks -> "OK"
      [] OTHER ->
           LET sameBlock == ck.blk = h.last.blk /\ ck.off = h.last.off
           IN  IF sameBlock /\ ck.bytes # h.last.bytes THEN "INVALID_CHECKPOINT"
               ELSE IF (sameBlock \/ ck.bytes = 0) /\ ~isGlobal THEN "NO_PROGRESS"
               ELSE "OK"

SetCheckpointCode(h, ck, isGlobal) ==
    IF ck.numBlocks > Len(h.src) THEN "INVALID_CHECKPOINT"
                                 ELSE ValidateCheckpoint(h, ck, isGlobal)

(***************************************************************************)
(* setCheckpointAndReturnToQueue: everything after the first numBlocks     *)
(* sources goes back to the queue; the checkpoint's byte count applies to  *)
(* the oldest of them.  A rejected checkpoint changes nothing.             *)
(***************************************************************************)
SetCheckpoint(h, ck, isGlobal) ==
    IF SetCheckpointCode(h, ck, isGlobal) = "INVALID_CHECKPOINT" THEN h
    ELSE [h EXCEPT !.src = SubSeq(h.src, 1, ck.numBlocks),
                   !.acked = ck.numBlocks,
                   !.last = ck,
                   !.global = h.global \/ isGlobal]

(* Mutation: the source the checkpoint is about is forgotten. *)
SourcesToReturn_NotOldest(h, ck, isGlobal) ==
    IF SetCheckpointCode(h, ck, isGlobal) = "INVALID_CHECKPOINT" THEN {}
    ELSE {h.src[i] : i \in ck.numBlocks + 2 .. Len(h.src)}

SourcesToReturn(h, ck, isGlobal) ==
    IF SetCheckpointCode(h, ck, isGlobal) = "INVALID_CHECKPOINT" THEN {}
    ELSE {MarkSourceAsFailed(h.src[i], IF i = ck.numBlocks + 1 THEN ck ELSE NoCheckpoint) :
              i \in ck.numBlocks + 1 .. Len(h.src)}

(* Mutation: a source added after the global checkpoint is kept. *)
AddSource_AfterGlobal(h, s) == [h EXCEPT !.src = Append(h.src, s)]

(***************************************************************************)
(* addSource after a global checkpoint: the source is not kept, and the    *)
(* checkpoint's byte count is used up by it.                               *)
(***************************************************************************)
AddSource(h, s) ==
    IF h.global THEN [h EXCEPT !.last = NoCheckpoint]
                ELSE [h EXCEPT !.src = Append(h.src, s)]

SourceToReturn(h, s) ==
    IF h.global THEN {MarkSourceAsFailed(s, h.last)} ELSE {}

(* Mutation: the index of the last source is taken for their number. *)
MarkAllAcknowledged_LastIndex(h) == [h EXCEPT !.acked = Len(h.src) - 1]

MarkAllAcknowledged(h) == [h EXCEPT !.acked = Len(h.src)]

UnackedCheckpoint(h, p) == [NewCheckpoint(p) EXCEPT !.numBlocks = h.acked]

ReturnUnackedSources(h, p) == SetCheckpoint(h, UnackedCheckpoint(h, p), FALSE)

UnackedSources(h, p) == SourcesToReturn(h, UnackedCheckpoint(h, p), FALSE)

MarkNotInUse(h) == [h EXCEPT !.inUse = FALSE]
=============================================================================

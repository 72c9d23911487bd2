----------------------------- MODULE Intervals -----------------------------
(***************************************************************************)
(* Parts of a file as intervals of bytes (Interval of Protocol.h), what a  *)
(* list of them leaves out, and the blocks a source queue cuts them into   *)
(* (DirectorySourceQueue::createIntoQueueInternal).                        *)
(***************************************************************************)
EXTENDS Integers, Sequences

(* The bytes start, ..., end - 1. *)
Interval(start, end) == [start |-> start, end |-> end]
Size(chunk) == chunk.end - chunk.start
Bytes(chunk) == chunk.start .. (chunk.end - 1)
BytesOf(chunks) == UNION {Bytes(chunks[i]) : i \in DOMAIN chunks}

Smaller(m, n) == IF m < n THEN m ELSE n
Larger(m, n) == IF m < n THEN n ELSE m

(***************************************************************************)
(* FileChunksInfo::getRemainingChunks: what lies between the chunks, which *)
(* are sorted, and after the last one up to the size of the file.          *)
(***************************************************************************)
Before(chunks, i) == IF i = 1 THEN 0 ELSE chunks[i - 1].end

(* Mutation: what follows the last chunk is not sent. *)
GetRemainingChunks_GapsOnly(chunks, fileSize) ==
    LET gap(i) == Interval(Before(chunks, i), chunks[i].start)
    IN  SelectSeq([i \in 1 .. Len(chunks) |-> gap(i)], LAMBDA g : g.start < g.end)

GetRemainingChunks(chunks, fileSize) ==
    LET gap(i) == Interval(Before(chunks, i),
                           IF i <= Len(chunks) THEN chunks[i].start ELSE fileSize)
    IN  SelectSeq([i \in 1 .. (Len(chunks) + 1) |-> gap(i)], LAMBDA g : g.start < g.end)

(***************************************************************************)
(* The blocks of a chunk: at least one, even for an empty file, and none   *)
(* but the last shorter than the block size.                               *)
(***************************************************************************)
NumBlocks(size, blockSize) ==
    IF size = 0 THEN 1 ELSE (size + blockSize - 1) \div blockSize

BlocksOf(chunk, blockSize) ==
    [i \in 1 .. NumBlocks(Size(chunk), blockSize) |->
        LET off == chunk.start + (i - 1) * blockSize
        IN  [off |-> off, size |-> Smaller(blockSize, chunk.end - off)]]

(* A block size of zero switches block mode off: one block per chunk. *)
BlockLimit(fileSize, blockSize) == IF blockSize > 0 THEN blockSize ELSE fileSize
=============================================================================

--------------------------- MODULE MCFileChunks ---------------------------
(***************************************************************************)
(* The operators of FileChunks compared with what they mean for sets of    *)
(* bytes, on every list of at most MaxChunks chunks of a file of at most   *)
(* MaxSize bytes, in every order in which the chunks can be added.         *)
(***************************************************************************)
EXTENDS FileChunks

CONSTANTS MaxSize, MaxChunks

VARIABLE chunks

Init == chunks = <<>>

(* FileChunksInfo::addChunk, for every block a receiver may have written:  *)
(* blocks may overlap, repeat or touch; only an empty file has an empty    *)
(* block, at offset 0.                                                     *)
AddChunk ==
    /\ Len(chunks) < MaxChunks
    /\ \E s, e \in 0 .. MaxSize :
           /\ s < e \/ s = 0
           /\ s <= e
           /\ chunks' = Append(chunks, Interval(s, e))

Next == AddChunk

Spec == Init /\ [][Next]_chunks

(* The sizes the sender's file can have and still be resumed with these    *)
(* chunks (a file that became smaller is sent as a whole).                 *)
FileSizes == {n \in 0 .. MaxSize : BytesOf(chunks) \subseteq 0 .. (n - 1)}

Remaining(n) == GetRemainingChunks(MergeChunks(chunks), n)

(***************************************************************************)
(* mergeChunks loses and invents no byte, and leaves a sorted list in      *)
(* which no two chunks touch (so that every gap getRemainingChunks sees is *)
(* really one).                                                            *)
(***************************************************************************)
MergeIsExact ==
    LET merged == MergeChunks(chunks)
    IN  /\ BytesOf(merged) = BytesOf(chunks)
        /\ \A i \in 1 .. (Len(merged) - 1) : merged[i].end < merged[i + 1].start

(***************************************************************************)
(* A resumed transfer sends exactly the bytes the receiver lacks: the      *)
(* remaining chunks are disjoint, not empty, in order, and with the        *)
(* received ones they make up the file.                                    *)
(***************************************************************************)
RemainingIsMissing ==
    \A n \in FileSizes :
        /\ BytesOf(Remaining(n)) = (0 .. (n - 1)) \ BytesOf(chunks)
        /\ \A i \in DOMAIN Remaining(n) : Size(Remaining(n)[i]) > 0
        /\ \A i \in 1 .. (Len(Remaining(n)) - 1) :
               Remaining(n)[i].end < Remaining(n)[i + 1].start

(***************************************************************************)
(* The blocks cut from the remaining chunks tile them, for every block     *)
(* size and with block mode off (0): no byte is sent twice or not at all,  *)
(* no block is longer than the block size, and none is empty.              *)
(***************************************************************************)
BlocksTile ==
    \A n \in FileSizes, size \in 0 .. MaxSize :
        LET blocks == BlocksToSend(Remaining(n), n, size)
            span(b) == b.off .. (b.off + b.size - 1)
        IN  /\ UNION {span(blocks[i]) : i \in DOMAIN blocks} = BytesOf(Remaining(n))
            /\ \A i, j \in DOMAIN blocks :
                   i # j => span(blocks[i]) \cap span(blocks[j]) = {}
            /\ \A i \in DOMAIN blocks :
                   blocks[i].size > 0 /\ (size > 0 => blocks[i].size <= size)
=============================================================================

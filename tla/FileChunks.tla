----------------------------- MODULE FileChunks -----------------------------
(***************************************************************************)
(* The chunks of a file that a receiver has (FileChunksInfo of             *)
(* Protocol.cpp), the blocks that make up the rest, and how a list of      *)
(* files with their chunks is packed into buffers                          *)
(* (Protocol::encodeFileChunksInfoList).                                   *)
(***************************************************************************)
EXTENDS Intervals, SequencesExt, FiniteSetsExt

(***************************************************************************)
(* FileChunksInfo::mergeChunks.  The chunks are sorted by their start; a   *)
(* chunk that begins inside or right after the current one extends it.     *)
(***************************************************************************)
MergeChunk(merged, chunk) ==
    LET cur == Last(merged)
    IN  IF chunk.start > cur.end
        THEN Append(merged, chunk)
        ELSE [merged EXCEPT ![Len(merged)].end = Larger(cur.end, chunk.end)]

MergeChunks(chunks) ==
    IF chunks = <<>>
    THEN <<>>
    ELSE LET sorted == SortSeq(chunks, LAMBDA c, d : c.start < d.start)
         IN  FoldLeft(MergeChunk, <<Head(sorted)>>, Tail(sorted))

(* The blocks of the chunks one after the other. *)
BlocksToSend(chunks, fileSize, blockSize) ==
    FlattenSeq([i \in DOMAIN chunks |-> BlocksOf(chunks[i], BlockLimit(fileSize, blockSize))])

(***************************************************************************)
(* Protocol::encodeFileChunksInfoList: the entries of list, from index     *)
(* from + 1 on, that go into a buffer of bufSize bytes of which the first  *)
(* header bytes are taken.  entry.max stands for maxEncodeLen, which the   *)
(* code compares with the room left, and entry.used for the bytes the      *)
(* entry really takes.  The result is the sequence of the indices encoded. *)
(***************************************************************************)
EncodeEntry_GoesOn(acc, i, entry, header, bufSize) ==
    CASE entry.max + header > bufSize -> acc
      [] entry.max + acc.off >= bufSize -> acc
      [] OTHER -> [acc EXCEPT !.off = @ + entry.used,
                              !.entries = Append(@, i)]

EncodeEntry(acc, i, entry, header, bufSize) ==
    CASE acc.full -> acc
      [] entry.max + header > bufSize -> acc
      [] entry.max + acc.off >= bufSize -> [acc EXCEPT !.full = TRUE]
      [] OTHER -> [acc EXCEPT !.off = @ + entry.used,
                              !.entries = Append(@, i)]

EncodeFileChunksInfoList(list, header, bufSize, from) ==
    FoldLeft(LAMBDA acc, i : EncodeEntry(acc, i, list[i], header, bufSize),
             [off |-> header, full |-> FALSE, entries |-> <<>>],
             [k \in 1 .. (Len(list) - from) |-> from + k]).entries
=============================================================================

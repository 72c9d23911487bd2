------------------------------ MODULE Encoding ------------------------------
(***************************************************************************)
(* The encodings of util/SerializationUtil and the messages of             *)
(* Protocol.cpp built from them.  A byte has Group + 1 bits, the last of   *)
(* which says that another byte follows; a 64 bit number takes at most     *)
(* MaxBytes bytes, in the last of which all bits count.  In the code Group *)
(* is 7 and MaxBytes 9; smaller values keep every case and let TLC try     *)
(* all numbers.                                                            *)
(***************************************************************************)
EXTENDS Integers, Sequences, SequencesExt, FiniteSetsExt

CONSTANTS Group, MaxBytes, Len32, Len64

Base == 2 ^ Group
ByteSize == 2 * Base
Word == 2 ^ (Group * MaxBytes + 1)
Int64Max == Word \div 2 - 1
Int32Max == ByteSize ^ Len32 \div 2 - 1

(* As 7 * 9 + 1 = 8 * 8: a 64 bit number fills Len64 bytes. *)
WidthAssumption == Word = ByteSize ^ Len64 /\ Len32 < Len64

(***************************************************************************)
(* encodeVarU64: the loop ends at the MaxBytes-th byte, or when what is    *)
(* left fits without the continuation bit.                                 *)
(***************************************************************************)
VarLen(v) == Min({MaxBytes} \cup {k \in 1 .. MaxBytes : v < Base ^ k})

EncodeVarU64(v) ==
    [i \in 1 .. VarLen(v) |->
        LET left == v \div Base ^ (i - 1)
        IN  IF i < VarLen(v) THEN Base + (left % Base) ELSE left % ByteSize]

(* What is decoded: success, the values so far, and the bytes behind. *)
Fail == [ok |-> FALSE, vals |-> <<>>, rest |-> <<>>]
Decoded(v, bytes, used) ==
    [ok |-> TRUE, vals |-> <<v>>, rest |-> SubSeq(bytes, used + 1, Len(bytes))]

(* decodeVarU64: false when the data ends before the number does. *)
DecodeVarU64(bytes) ==
    LET ends == {k \in 1 .. MaxBytes : k <= Len(bytes) /\ (k = MaxBytes \/ bytes[k] < Base)}
        last == CHOOSE k \in ends : \A other \in ends : k <= other
        digit(i) == IF i < last THEN bytes[i] % Base ELSE bytes[i]
        sum[i \in 0 .. MaxBytes] ==
            IF i = 0 THEN 0 ELSE sum[i - 1] + digit(i) * Base ^ (i - 1)
    IN  IF ends = {} THEN Fail ELSE Decoded(sum[last] % Word, bytes, last)

EncodeZigZag(i) == IF i >= 0 THEN 2 * i ELSE -2 * i - 1
DecodeZigZag(u) == IF u % 2 = 0 THEN u \div 2 ELSE -((u + 1) \div 2)

(* Little endian, without a continuation bit; negative values are refused. *)
EncodeFixed(v, n) == [i \in 1 .. n |-> (v \div ByteSize ^ (i - 1)) % ByteSize]

DecodeFixed(bytes, n) ==
    LET sum[i \in 0 .. n] ==
            IF i = 0 THEN 0 ELSE sum[i - 1] + bytes[i] * ByteSize ^ (i - 1)
    IN  IF Len(bytes) < n \/ bytes[n] >= Base THEN Fail ELSE Decoded(sum[n], bytes, n)

DecodeString(bytes) ==
    LET d == DecodeVarU64(bytes)
    IN  IF ~d.ok \/ d.vals[1] > Len(d.rest)
        THEN Fail
        ELSE Decoded(SubSeq(d.rest, 1, d.vals[1]), d.rest, d.vals[1])

(* A seq-id of -1, which versions before VARINT_CHANGE write with ten      *)
(* bytes of seven bits each.  Its tenth byte is consumed.                  *)
OldMinusOne == [i \in 1 .. MaxBytes |-> ByteSize - 1] \o <<1>>

EncodeSeqId(old, v) == IF v = -1 /\ old THEN OldMinusOne ELSE EncodeVarU64(v)

DecodeSeqId_LeavesOne(old, bytes) ==
    LET s == DecodeVarU64(bytes)
    IN  IF ~s.ok
        THEN Fail
        ELSE [s EXCEPT !.vals = <<IF @[1] > Int64Max THEN @[1] - Word ELSE @[1]>>]

DecodeSeqId(old, bytes) ==
    LET s == DecodeVarU64(bytes)
        signed == IF s.vals[1] > Int64Max THEN s.vals[1] - Word ELSE s.vals[1]
        tenth == old /\ s.vals[1] = Word - 1 /\ s.rest # <<>>
    IN  IF ~s.ok \/ (tenth /\ s.rest[1] # 1)
        THEN Fail
        ELSE [ok |-> TRUE, vals |-> <<signed>>, rest |-> IF tenth THEN Tail(s.rest) ELSE s.rest]

(***************************************************************************)
(* The fields of a message: encodeVarI64C / decodeInt64C ("int64") or      *)
(* decodeInt32C ("int32"), encodeVarI64 / decodeInt32 ("zigzag"), the      *)
(* seq-id of a checkpoint, a string, one byte, and the fixed length        *)
(* integers.                                                               *)
(***************************************************************************)
EncodeField(kind, v) ==
    CASE kind \in {"int64", "int32"} -> EncodeVarU64(v)
      [] kind = "zigzag" -> EncodeVarU64(EncodeZigZag(v))
      [] kind \in {"seqId", "oldSeqId"} -> EncodeSeqId(kind = "oldSeqId", v)
      [] kind = "string" -> EncodeVarU64(Len(v)) \o v
      [] kind = "byte"   -> <<v>>
      [] kind = "fixed32" -> EncodeFixed(v, Len32)
      [] kind = "fixed64" -> EncodeFixed(v, Len64)

DecodeInt(bytes, max) ==
    LET d == DecodeVarU64(bytes) IN IF d.ok /\ d.vals[1] > max THEN Fail ELSE d

DecodeInt32(bytes) ==
    LET d == DecodeVarU64(bytes)
        v == DecodeZigZag(d.vals[1])
    IN  IF ~d.ok \/ v > Int32Max \/ v < -Int32Max - 1
        THEN Fail
        ELSE [d EXCEPT !.vals = <<v>>]

DecodeField(kind, bytes) ==
    CASE kind = "int64"  -> DecodeInt(bytes, Int64Max)
      [] kind = "int32"  -> DecodeInt(bytes, Int32Max)
      [] kind = "zigzag" -> DecodeInt32(bytes)
      [] kind \in {"seqId", "oldSeqId"} -> DecodeSeqId(kind = "oldSeqId", bytes)
      [] kind = "string" -> DecodeString(bytes)
      [] kind = "byte"   -> IF bytes = <<>> THEN Fail ELSE Decoded(bytes[1], bytes, 1)
      [] kind = "fixed32" -> DecodeFixed(bytes, Len32)
      [] kind = "fixed64" -> DecodeFixed(bytes, Len64)

EncodeAll(kinds, vals) ==
    FlattenSeq([i \in 1 .. Len(vals) |-> EncodeField(kinds[i], vals[i])])

(* One more field behind what is decoded. *)
Also(d, kind) ==
    LET f == DecodeField(kind, d.rest)
    IN  IF d.ok /\ f.ok
        THEN [ok |-> TRUE, vals |-> d.vals \o f.vals, rest |-> f.rest]
        ELSE Fail

Begin(bytes) == [ok |-> TRUE, vals |-> <<>>, rest |-> bytes]
DecodeAll(kinds, bytes) == FoldLeft(Also, Begin(bytes), kinds)

(***************************************************************************)
(* The messages                                                            *)
(***************************************************************************)
SettingsFlag == 12
HeaderFlagAndPrevSeqId == 13
CheckpointOffset == 16
CheckpointSeqId == 21
VarintChange == 27

Since(version, first, kinds) == IF version >= first THEN kinds ELSE <<>>

(* The messages whose fields depend on the version only. *)
Fields(msg, version) ==
    CASE msg = "done" -> <<"int64">> \o Since(version, CheckpointOffset, <<"int64">>)
      [] msg = "size" -> <<"int64">>
      [] msg = "abort" -> <<"fixed32", "byte", "fixed64">>
      [] msg = "chunks" -> <<"fixed64", "fixed64">>
      [] msg = "settings" -> <<"int32", "int32", "int32", "string">>
                                 \o Since(version, SettingsFlag, <<"byte">>)
      [] msg = "encryption" -> <<"int64", "string", "fixed32">>
      [] msg = "footer" -> <<"zigzag">>

(* FileAllocationStatus; the previous seq-id goes with two of them. *)
NotExists == 0
ExistsCorrectSize == 1
ExistsTooLarge == 2
ExistsTooSmall == 3
ToBeDeleted == 4
Resized == {ExistsTooLarge, ExistsTooSmall}

HeaderFields == <<"string", "int64", "int64", "int64", "int64">>

(* A header is its name, seq-id, data size, offset, file size, and from    *)
(* HEADER_FLAG_AND_PREV_SEQ_ID_VERSION on its status (and seq-id).         *)
EncodeHeader(version, vals) ==
    EncodeAll(HeaderFields \o Since(version, HeaderFlagAndPrevSeqId, <<"byte", "int64">>), vals)

DecodeHeader(version, bytes) ==
    LET d == DecodeAll(HeaderFields \o Since(version, HeaderFlagAndPrevSeqId, <<"byte">>), bytes)
    IN  IF d.ok /\ version >= HeaderFlagAndPrevSeqId /\ d.vals[6] % 8 \in Resized
        THEN Also(d, "int64")
        ELSE d

(* A checkpoint is its port, number of blocks, received bytes, and the     *)
(* seq-id and offset of the last block.                                    *)
CheckpointFields(version) ==
    <<"int32", "int64">> \o Since(version, CheckpointOffset, <<"int64">>)
      \o Since(version, CheckpointSeqId,
               <<IF version < VarintChange THEN "oldSeqId" ELSE "seqId", "int64">>)

EncodeCheckpoint(version, cp) == EncodeAll(CheckpointFields(version), cp)

EncodeCheckpoints(version, cps) ==
    EncodeVarU64(Len(cps)) \o FlattenSeq([i \in 1 .. Len(cps) |-> EncodeCheckpoint(version, cps[i])])

DecodeCheckpoint(version, bytes) == DecodeAll(CheckpointFields(version), bytes)

(* Each element of a list: a decoder applied n times, the values collected *)
(* as tuples.                                                              *)
DecodeMany(Decode(_), n, d) ==
    FoldLeft(LAMBDA acc, i :
                 LET e == Decode(acc.rest)
                 IN  IF acc.ok /\ e.ok
                     THEN [ok |-> TRUE, vals |-> Append(acc.vals, e.vals), rest |-> e.rest]
                     ELSE Fail,
             [d EXCEPT !.vals = <<>>], [i \in 1 .. n |-> i])

DecodeCheckpoints(version, bytes) ==
    LET d == DecodeVarU64(bytes)
    IN  IF d.ok THEN DecodeMany(LAMBDA b : DecodeCheckpoint(version, b), d.vals[1], d) ELSE Fail

(* A file with its chunks: seq-id, name, size, and the chunks' ends. *)
InfoFields == <<"int64", "string", "int64", "int64">>
ChunkFields == <<"int64", "int64">>

EncodeFileChunksInfo(info, chunks) ==
    EncodeAll(InfoFields, Append(info, Len(chunks)))
      \o FlattenSeq([i \in 1 .. Len(chunks) |-> EncodeAll(ChunkFields, chunks[i])])

DecodeFileChunksInfo(bytes) ==
    LET d == DecodeAll(InfoFields, bytes)
        c == DecodeMany(LAMBDA b : DecodeAll(ChunkFields, b), d.vals[4], d)
    IN  IF d.ok /\ c.ok
        THEN [ok |-> TRUE, vals |-> SubSeq(d.vals, 1, 3) \o c.vals, rest |-> c.rest]
        ELSE Fail

(***************************************************************************)
(* The lengths the buffers are made for (Protocol.h); a number counts for  *)
(* ten bytes, one more than it takes.                                      *)
(***************************************************************************)
VarMax == MaxBytes + 1

KMaxHeader(pathMax) == 1 + 2 + pathMax + 4 * VarMax + 1 + VarMax
KMaxDone == 2 + 2 * VarMax
KMaxSize == 1 + VarMax
KMaxSettings(idMax) == 1 + 3 * VarMax + idMax + 1
KMaxFooter == 1 + VarMax
KAbortLength == Len32 + 1 + Len64
KChunksCmdLen == 2 * Len64
KEncryptionCmdLen(ivLen) == 1 + 1 + 1 + ivLen + Len32

GetMaxLocalCheckpointLength(version) ==
    VarMax * (3 + (IF version >= CheckpointOffset THEN 1 ELSE 0)
                + (IF version >= CheckpointSeqId THEN 2 ELSE 0))

MaxEncodeLen(name, numChunks) == VarMax + 2 + Len(name) + 2 * VarMax + numChunks * 2 * VarMax
=============================================================================

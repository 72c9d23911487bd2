----------------------------- MODULE MCEncoding -----------------------------
(***************************************************************************)
(* The operators of Encoding on every number, and on every message of      *)
(* every version with boundary values in its fields.  The names and ids    *)
(* have at most PathMax bytes, a length that takes two bytes, as PATH_MAX  *)
(* and kMaxTransferIdLength do.                                            *)
(***************************************************************************)
EXTENDS Encoding

CONSTANTS PathMax, IvLen, Versions

VARIABLE message

(* The versions at which a format changes, and the ones before. *)
MCVersions == {11, 12, 13, 15, 16, 20, 21, 26, 27, 30}

(* Where the number of bytes changes. *)
Numbers == {0, Base - 1, Base, Int64Max}
Ints == {0, Base, Int32Max}

(* Bytes that look like the end of a number, and like the middle of one. *)
Strings(lens) == {[i \in 1 .. n |-> b] : n \in lens, b \in {0, ByteSize - 1}}
Names == Strings({0, 1, PathMax})

Tuples2(A, B) == {<<a, b>> : a \in A, b \in B}
Tuples3(A, B, C) == {<<a, b, c>> : a \in A, b \in B, c \in C}

DoneVals(v) == IF v >= CheckpointOffset THEN Tuples2(Numbers, Numbers) ELSE {<<n>> : n \in Numbers}

SettingsVals(v) ==
    {<<v, r, w, id>> \o f : r \in Ints, w \in Ints, id \in Names,
                            f \in IF v >= SettingsFlag THEN {<<0>>, <<ByteSize - 1>>} ELSE {<<>>}}

HeaderVals(v) ==
    {<<name, s, d, o, z>> \o f :
        name \in Names, s \in {Base}, d \in Numbers, o \in {0, Int64Max}, z \in {0, Int64Max},
        f \in IF v >= HeaderFlagAndPrevSeqId
              THEN {<<ExistsTooLarge, n>> : n \in {0, Int64Max}} \cup {<<NotExists>>, <<ToBeDeleted>>}
              ELSE {<<>>}}

(* A receiver older than VARINT_CHANGE reports -1 when it has no block. *)
CheckpointVals(v) ==
    {<<p, n>> \o r \o s :
        p \in {1, Int32Max}, n \in Numbers,
        r \in IF v >= CheckpointOffset THEN {<<0>>, <<Int64Max>>} ELSE {<<>>},
        s \in IF v >= CheckpointSeqId
              THEN Tuples2({0, Int64Max} \cup (IF v < VarintChange THEN {-1} ELSE {}), {0, Base})
              ELSE {<<>>}}

CheckpointLists(v) ==
    {<<c>> : c \in CheckpointVals(v)}
      \cup {<<c, d>> : c, d \in {e \in CheckpointVals(v) : e[1] = 1 /\ e[2] = 0}}

Infos == Tuples3({0, Int64Max}, Names, {0, Base})
ChunkLists == UNION {[1 .. n -> Tuples2({0, Base}, {Base, Int64Max})] : n \in 0 .. 2}

ValsOf(msg, v) ==
    CASE msg = "number" -> {<<n>> : n \in 0 .. (Word - 1)}
      [] msg = "done" -> DoneVals(v)
      [] msg = "size" -> {<<n>> : n \in Numbers}
      [] msg = "abort" -> Tuples3(Ints, {0, ByteSize - 1}, Numbers)
      [] msg = "chunks" -> Tuples2(Numbers, Numbers)
      [] msg = "settings" -> SettingsVals(v)
      [] msg = "encryption" -> Tuples3(0 .. (Base - 1), Strings({IvLen}), Ints)
      [] msg = "footer" -> {<<n>> : n \in (-Int32Max - 1) .. Int32Max}
      [] msg = "header" -> HeaderVals(v)
      [] msg = "checkpoints" -> CheckpointLists(v)
      [] msg = "info" -> Tuples2(Infos, ChunkLists)

Versioned == {"done", "settings", "header", "checkpoints"}
Messages == Versioned \cup {"number", "size", "abort", "chunks", "encryption", "footer", "info"}

NoMessage == [msg |-> "none", version |-> Max(Versions), vals |-> <<>>]

Init == message = NoMessage

Send(msg, v) ==
    /\ message = NoMessage
    /\ msg \in Versioned \/ v = Max(Versions)
    /\ \E vals \in ValsOf(msg, v) : message' = [msg |-> msg, version |-> v, vals |-> vals]

Next == \E msg \in Messages, v \in Versions : Send(msg, v)

Spec == Init /\ [][Next]_message

Encoded ==
    CASE message.msg = "number" -> EncodeVarU64(message.vals[1])
      [] message.msg = "header" -> EncodeHeader(message.version, message.vals)
      [] message.msg = "checkpoints" -> EncodeCheckpoints(message.version, message.vals)
      [] message.msg = "info" -> EncodeFileChunksInfo(message.vals[1], message.vals[2])
      [] OTHER -> EncodeAll(Fields(message.msg, message.version), message.vals)

Decode(bytes) ==
    CASE message.msg = "number" -> DecodeVarU64(bytes)
      [] message.msg = "header" -> DecodeHeader(message.version, bytes)
      [] message.msg = "checkpoints" -> DecodeCheckpoints(message.version, bytes)
      [] message.msg = "info" -> DecodeFileChunksInfo(bytes)
      [] OTHER -> DecodeAll(Fields(message.msg, message.version), bytes)

Sent == IF message.msg = "info" THEN message.vals[1] \o message.vals[2] ELSE message.vals

(* What may follow a message in the buffer. *)
Following == {<<>>, <<0>>, <<1>>, <<ByteSize - 1, 1>>}

(***************************************************************************)
(* What one side encodes the other decodes to the same values, for the     *)
(* version they agreed on, and the decoder stops at the first byte of what *)
(* follows: a seq-id of -1 from a version before VARINT_CHANGE included.   *)
(***************************************************************************)
RoundTrip ==
    message # NoMessage =>
        LET bytes == Encoded
        IN  \A after \in Following :
                Decode(bytes \o after) = [ok |-> TRUE, vals |-> Sent, rest |-> after]

(***************************************************************************)
(* A message that is cut short is refused: no proper prefix of it decodes. *)
(* (A checkpoint of an old version may lack the tenth byte of its -1 and   *)
(* all that follows; then the offset is missing.)                          *)
(***************************************************************************)
ShortInputRefused ==
    message # NoMessage =>
        LET bytes == Encoded
        IN  \A n \in 0 .. (Len(bytes) - 1) : ~Decode(SubSeq(bytes, 1, n)).ok

(***************************************************************************)
(* Every message fits in the length its buffer is made for.  The callers   *)
(* of the encoders do not look at the result, and the sender puts four     *)
(* bytes before a header where kMaxHeader counts one.                      *)
(***************************************************************************)
FitsBuffer ==
    LET len == Len(Encoded)
    IN  CASE message.msg = "header" -> 4 + len <= KMaxHeader(PathMax)
          [] message.msg = "done" -> 2 + len <= KMaxDone
          [] message.msg = "size" -> 1 + len <= KMaxSize
          [] message.msg = "settings" -> 1 + len <= KMaxSettings(PathMax)
          [] message.msg = "footer" -> 1 + len <= KMaxFooter
          [] message.msg = "abort" -> len = KAbortLength
          [] message.msg = "chunks" -> len = KChunksCmdLen
          [] message.msg = "encryption" -> 1 + len = KEncryptionCmdLen(IvLen)
          [] message.msg = "checkpoints" /\ Len(message.vals) = 1
                -> len <= GetMaxLocalCheckpointLength(message.version)
          [] message.msg = "info"
                -> len <= MaxEncodeLen(message.vals[1][2], Len(message.vals[2]))
          [] OTHER -> TRUE
=============================================================================

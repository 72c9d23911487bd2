----------------------------- MODULE MCProtocol -----------------------------
(***************************************************************************)
(* The way of a file from the sender's queue to the receiver's buffer, for *)
(* TLC: SourceQueue, VersionNegotiation, CommandStream and Encoding.  One  *)
(* behaviour is about one of them, which the variable part names; the      *)
(* others rest in their initial state.                                     *)
(*   resume                          SourceQueue                           *)
(*   versions                        VersionNegotiation                    *)
(*   stream, chunks, long_header     CommandStream                         *)
(*   encoding                        MCEncoding                            *)
(***************************************************************************)
EXTENDS SourceQueue, TLC

CONSTANTS Parts, fa, fb, fx, t1, t2, t3

VARIABLES part,
          \* VersionNegotiation
          session, version, abortCode, appAbort, status, barrier, funnel, s, r, conn, up,
          down, faults,
          \* CommandStream
          cmds, written, spc, sized, taken, buf, off, oldOffset, numRead, want, stored, rpc,
          \* MCEncoding
          message

versionVars == <<session, version, abortCode, appAbort, status, barrier, funnel, s, r, conn, up,
                 down, faults>>
streamVars == <<cmds, written, spc, sized, taken, buf, off, oldOffset, numRead, want, stored,
                rpc>>
protocolVars == <<part, vars, versionVars, streamVars, message>>

-----------------------------------------------------------------------------
(* Resumption: fa has two blocks, fb one; fx is the receiver's only.  The  *)
(* receiver has nothing; fa in part and fx; fa in a smaller size and fb    *)
(* complete; or fb in a larger size.                                       *)
TreeFiles == (fa :> 3) @@ (fb :> 2)
TreeBatch == <<{fa, fb}>>

Span(from, to) == [start |-> from, end |-> to]
Has(size, chunks, id) == [size |-> size, chunks |-> chunks, seqId |-> id]
Received ==
    {<<>>,
     (fa :> Has(3, <<Span(1, 2)>>, 4)) @@ (fx :> Has(2, <<Span(0, 1)>>, 1)),
     (fa :> Has(2, <<Span(0, 2)>>, 1)) @@ (fb :> Has(2, <<Span(0, 2)>>, 2)),
     (fb :> Has(3, <<Span(0, 3)>>, 3))}

(* Three threads of a sender that is newer than the receiver. *)
VersionThreads == {t1, t2, t3}
Newer == <<14>>

Mismatch == INSTANCE VersionNegotiation WITH
    Threads <- VersionThreads, SenderVersions <- Newer, ReceiverVersion <- 13,
    ChecksumVersion <- 12, AppMayAbort <- FALSE, MaxFaults <- 1

(* kMinBufLength is 3, kMaxHeader 6, and the buffer has twice that length. *)
Short == {2, 3}
DataSizes == {0, 2, 7}

Stream == INSTANCE CommandStream WITH
    BufSize <- 12, KMinBufLength <- 3, KMaxHeader <- 6, SettingsLens <- Short, SizeLens <- {1},
    HeaderLens <- Short, DataSizes <- {0, 7}, FooterLens <- {2}, Resuming <- FALSE,
    Checksum <- TRUE, MaxCommands <- 5,
    sent <- written, written <- stored, pc <- rpc

(* The sender asks for the chunks the receiver has; blocks have no footer. *)
Asking == INSTANCE CommandStream WITH
    BufSize <- 12, KMinBufLength <- 3, KMaxHeader <- 6, SettingsLens <- Short, SizeLens <- {1},
    HeaderLens <- Short, DataSizes <- DataSizes, FooterLens <- {1, 2}, Resuming <- TRUE,
    Checksum <- FALSE, MaxCommands <- 5,
    sent <- written, written <- stored, pc <- rpc

(* A header may be longer than kMinBufLength: a long file name. *)
LongHeader == INSTANCE CommandStream WITH
    BufSize <- 12, KMinBufLength <- 3, KMaxHeader <- 6, SettingsLens <- Short, SizeLens <- {1},
    HeaderLens <- {2, 5}, DataSizes <- DataSizes, FooterLens <- {1, 2}, Resuming <- FALSE,
    Checksum <- FALSE, MaxCommands <- 4,
    sent <- written, written <- stored, pc <- rpc

(* Bytes of 3 bits, of which a varint uses 2; integers of 2 and 3 bytes.   *)
(* The versions are those at which a format changes, and the ones before.  *)
FormatVersions == {11, 12, 13, 15, 16, 20, 21, 26, 27, 30}

Formats == INSTANCE MCEncoding WITH
    Group <- 2, MaxBytes <- 4, Len32 <- 2, Len64 <- 3, PathMax <- 15, IvLen <- 3,
    Versions <- FormatVersions

ASSUME Stream!LengthsAssumption /\ Asking!LengthsAssumption /\ LongHeader!LengthsAssumption
ASSUME Formats!WidthAssumption

-----------------------------------------------------------------------------
ProtocolInit == part \in Parts /\ Init /\ Mismatch!Init /\ Stream!Init /\ Formats!Init

Resumption ==
    /\ part = "resume" /\ Next
    /\ UNCHANGED <<part, versionVars, streamVars, message>>

Negotiation ==
    /\ part = "versions" /\ Mismatch!Next
    /\ UNCHANGED <<part, vars, streamVars, message>>

Streams ==
    /\ \/ part = "stream" /\ Stream!Next
       \/ part = "chunks" /\ Asking!Next
       \/ part = "long_header" /\ LongHeader!Next
    /\ UNCHANGED <<part, vars, versionVars, message>>

OneMessage ==
    /\ part = "encoding" /\ Formats!Next
    /\ UNCHANGED <<part, vars, versionVars, streamVars>>

ProtocolNext == Resumption \/ Negotiation \/ Streams \/ OneMessage

ProtocolSpec == ProtocolInit /\ [][ProtocolNext]_protocolVars

ThreadSymmetry == Permutations(Threads) \cup Permutations(VersionThreads)

-----------------------------------------------------------------------------
(* While one thread negotiates a version, every other one waits for it or  *)
(* has ended.                                                              *)
AllWaitForNegotiation == part = "versions" => Mismatch!AllWaitForNegotiation

(***************************************************************************)
(* ReceiverThread: however the bytes arrive, every command is decoded from *)
(* the bytes the sender wrote for it, and a file gets the bytes of its     *)
(* block.                                                                  *)
(***************************************************************************)
NeverMisread == Stream!NeverMisread

(***************************************************************************)
(* Protocol, Serialization: what one side encodes fits the buffer it is    *)
(* made for, the other side decodes it to the same values, for every       *)
(* version, and stops where what follows begins; no proper prefix of it    *)
(* decodes.                                                                *)
(***************************************************************************)
RoundTrip ==
    part = "encoding" => Formats!FitsBuffer /\ Formats!RoundTrip /\ Formats!ShortInputRefused
=============================================================================

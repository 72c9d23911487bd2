--------------------------- MODULE TransferProofs ---------------------------
(***************************************************************************)
(* Every step of a receiver thread keeps the type invariant, one case for  *)
(* each handler of ReceiverThread; with SenderProofs, the type invariant   *)
(* of Transfer, for any number of ports, blocks, connections and failures. *)
(***************************************************************************)
EXTENDS Transfer, SenderProofs

(* The bytes of a source lie inside its block. *)
LEMMA BytesOfType ==
    ASSUME NEW s \in Source, NEW n \in 0..SizeOf(s)
    PROVE  BytesOf(s, n) \in SUBSET (Blocks \X (0..BlockSize))
<1>1. s.blk \in Blocks /\ s.off \in 0..BlockSize /\ s.off + n <= BlockSize
  BY BlockSizeAssumption DEF Source, SizeOf
<1>2. s.off .. (s.off + n - 1) \subseteq 0..BlockSize
  BY <1>1, BlockSizeAssumption
<1>3. QED
  BY <1>1, <1>2 DEF BytesOf

(* markBlockVerified counts whole blocks and trusts bytes of blocks only. *)
LEMMA MarkVerifiedType ==
    ASSUME ReceiverTypeOK, NEW p \in Ports, NEW ck \in Checkpoint, NEW srcs \in Seq(Source),
           NEW part \in SUBSET (Blocks \X (0..BlockSize)), MarkVerified(p, ck, srcs, part)
    PROVE  /\ rCheckpoint' \in [Ports -> Checkpoint]
           /\ valid' \in SUBSET (Blocks \X (0..BlockSize))
<1>1. Len(srcs) \in Nat /\ ck.numBlocks + Len(srcs) \in Nat
  BY CheckpointType
<1>2. [ck EXCEPT !.numBlocks = ck.numBlocks + Len(srcs)] \in Checkpoint
  BY <1>1, CheckpointType DEF Checkpoint
<1>3. rCheckpoint' = [rCheckpoint EXCEPT ![p] = [ck EXCEPT !.numBlocks = ck.numBlocks + Len(srcs)]]
  BY DEF MarkVerified
<1>4. ASSUME NEW i \in 1..Len(srcs)
      PROVE  AllBytesOf(srcs[i]) \in SUBSET (Blocks \X (0..BlockSize))
  <2>1. srcs[i] \in Source
    OBVIOUS
  <2>2. SizeOf(srcs[i]) \in 0..SizeOf(srcs[i])
    BY <2>1, SizeOfType, BlockSizeAssumption
  <2>3. QED
    BY <2>1, <2>2, BytesOfType DEF AllBytesOf
<1>5. valid' \in SUBSET (Blocks \X (0..BlockSize))
  BY <1>4 DEF MarkVerified, ReceiverTypeOK
<1>6. QED
  BY <1>2, <1>3, <1>5 DEF ReceiverTypeOK

(* The blocks a tag confirms, and the blocks that still wait, are sources. *)
LEMMA ConfirmedType ==
    ASSUME ReceiverTypeOK, NEW p \in Ports, NEW done \in Confirmed(p)
    PROVE  /\ done \in Seq(Source)
           /\ (IF done = <<>> THEN rVerify[p] ELSE <<>>) \in Seq(Source)
<1>1. <<>> \in Seq(Source) /\ rVerify[p] \in Seq(Source)
  BY DEF ReceiverTypeOK
<1>2. done = <<>> \/ done = rVerify[p]
  BY DEF Confirmed
<1>3. QED
  BY ZenonT(30), <1>1, <1>2

(* Going back to acceptWithTimeout closes the connection and keeps the types. *)
LEMMA AcceptAgainType ==
    ASSUME NetTypeOK, ReceiverTypeOK, NEW p \in Ports, AcceptAgain(p)
    PROVE  /\ toR' \in Streams
           /\ rOpen' \in [Ports -> BOOLEAN]
           /\ rState' = [rState EXCEPT ![p] = "ACCEPT_WITH_TIMEOUT"]
           /\ rErr' \in [Ports -> BOOLEAN]
           /\ rVerify' \in [Ports -> Seq(Source)]
<1>1. ReceiverCloses(p)
  BY DEF AcceptAgain
<1>2. <<>> \in Seq(Source)
  OBVIOUS
<1>3. QED
  BY <1>1, <1>2, ReceiverClosesType DEF AcceptAgain, ReceiverFails, ReceiverMoves, ReceiverTypeOK

(* Every handler of a receiver thread keeps the types of the connections and of
   the receiver, and has a connection in every state that reads or writes. *)
LEMMA ReceiverStepType ==
    ASSUME NetTypeOK, ReceiverTypeOK, ReceiverInv, NEW p \in Ports, ReceiverStep(p)
    PROVE  NetTypeOK' /\ ReceiverTypeOK' /\ ReceiverInv'
<1>1. CASE AcceptFirstConnection(p)
  <2>1. \/ Accept(p) /\ rState' = [rState EXCEPT ![p] = "READ_NEXT_CMD"] /\ started' = TRUE /\ rErr' = rErr
        \/ /\ UNCHANGED <<started, rConn, rOpen>>
           /\ \E st \in {"ACCEPT_WITH_TIMEOUT", "FINISH_WITH_ERROR"} : rState' = [rState EXCEPT ![p] = st]
           /\ rErr' = rErr \/ rErr' = [rErr EXCEPT ![p] = TRUE]
    BY <1>1 DEF AcceptFirstConnection, ReceiverMoves, ReceiverFails
  <2>2. Accept(p) => /\ rConn' \in [Ports -> 0..MaxConns]
                    /\ rOpen' \in [Ports -> BOOLEAN]
                    /\ rConn' = [rConn EXCEPT ![p] = rConn[p] + 1]
                    /\ rConn'[p] # 0
    BY ConnectionsAssumption DEF Accept, NetTypeOK
  <2>3. NetTypeOK'
    BY <1>1, <2>1, <2>2, ConnectionsAssumption
       DEF AcceptFirstConnection, NetTypeOK, Streams
  <2>4. ReceiverTypeOK'
    BY ZenonT(30), <1>1, <2>1, ConnectionsAssumption
       DEF AcceptFirstConnection, ReceiverTypeOK, ReceiverStates, ControlStates
  <2>5. ReceiverInv'
    BY ZenonT(30), <1>1, <2>1, <2>2, ConnectionsAssumption
       DEF AcceptFirstConnection, ReceiverInv, ReceiverTypeOK, NetTypeOK
  <2>6. QED
    BY <2>3, <2>4, <2>5
<1>2. CASE AcceptWithTimeout(p)
  <2>1. NetTypeOK'
    BY <1>2, ConnectionsAssumption
       DEF AcceptWithTimeout, Accept, ReceiverMoves, NetTypeOK, Streams
  <2>2. ReceiverTypeOK'
    BY <1>2, ConnectionsAssumption
       DEF AcceptWithTimeout, Accept, ReceiverMoves, ReceiverTypeOK, ReceiverStates, ControlStates
  <2>3. ReceiverInv'
    <3>1. rConn' = [rConn EXCEPT ![p] = rConn[p] + 1] /\ rConn[p] + 1 # 0
      BY <1>2, ConnectionsAssumption DEF AcceptWithTimeout, Accept, NetTypeOK
    <3>2. \E st \in {"SEND_LOCAL_CHECKPOINT", "READ_NEXT_CMD"} : rState' = [rState EXCEPT ![p] = st]
      BY ZenonT(30), <1>2 DEF AcceptWithTimeout, ReceiverMoves
    <3>3. QED
      BY <3>1, <3>2 DEF ReceiverInv, ReceiverTypeOK, NetTypeOK
  <2>4. QED
    BY <2>1, <2>2, <2>3
<1>3. CASE AcceptTimesOut(p)
  <2>1. NetTypeOK'
    BY <1>3
       DEF AcceptTimesOut, ReceiverFails, ReceiverMoves, netVars, NetTypeOK, Streams
  <2>2. ReceiverTypeOK'
    BY <1>3
       DEF AcceptTimesOut, ReceiverFails, ReceiverMoves, netVars, ReceiverTypeOK, ReceiverStates, ControlStates
  <2>3. ReceiverInv'
    BY <1>3
       DEF AcceptTimesOut, ReceiverFails, ReceiverMoves, netVars, ReceiverInv, ReceiverTypeOK, NetTypeOK
  <2>4. QED
    BY <2>1, <2>2, <2>3
<1>4. CASE SendLocalCheckpoint(p)
  <2>1. rConn[p] # 0
    BY <1>4 DEF SendLocalCheckpoint, ReceiverInv
  <2>2. rCheckpoint[p] \in Checkpoint
    BY DEF ReceiverTypeOK
  <2>3. <<rCheckpoint[p]>> \in Seq(Checkpoint) /\ <<rCheckpoint[p]>> # <<>>
    BY <2>2
  <2>4. CheckpointCmd("LOCAL_CHECKPOINT", <<rCheckpoint[p]>>) \in Message
    BY ZenonT(30), <2>3, CheckpointCmdType
  <2>5. toS' \in Streams
    BY <1>4, <2>1, ReceiverWriteType, <2>4 DEF SendLocalCheckpoint
  <2>6. \/ AcceptAgain(p)
        \/ rState' = [rState EXCEPT ![p] = "READ_NEXT_CMD"] /\ UNCHANGED <<rErr, rVerify, toR, rOpen>>
    BY <1>4 DEF SendLocalCheckpoint, ReceiverMoves
  <2>7. /\ toR' \in Streams /\ rOpen' \in [Ports -> BOOLEAN]
        /\ rErr' \in [Ports -> BOOLEAN] /\ rVerify' \in [Ports -> Seq(Source)]
        /\ rState' \in [Ports -> ReceiverStates]
    BY ZenonT(30), <2>6, AcceptAgainType DEF NetTypeOK, ReceiverTypeOK, ReceiverStates, Streams
  <2>8. NetTypeOK'
    BY <1>4, <2>7, <2>5
       DEF SendLocalCheckpoint, NetTypeOK, Streams
  <2>9. ReceiverTypeOK'
    BY <1>4, <2>7
       DEF SendLocalCheckpoint, ReceiverTypeOK, ReceiverStates, ControlStates
  <2>10. ReceiverInv'
    BY ZenonT(30), <1>4, <2>1
       DEF SendLocalCheckpoint, ReceiverInv, ReceiverTypeOK, NetTypeOK, AcceptAgain, ReceiverFails, ReceiverMoves
  <2>11. QED
    BY <2>8, <2>9, <2>10
<1>5. CASE NextCmdLost(p)
  <2>1. rConn[p] # 0
    BY Zenon, <1>5 DEF NextCmdLost, ReceiverInv
  <2>2. /\ toR' \in Streams /\ rOpen' \in [Ports -> BOOLEAN]
        /\ rErr' \in [Ports -> BOOLEAN] /\ rVerify' \in [Ports -> Seq(Source)]
        /\ rState' = [rState EXCEPT ![p] = "ACCEPT_WITH_TIMEOUT"]
    BY <1>5, AcceptAgainType DEF NextCmdLost
  <2>v. rCheckpoint' \in [Ports -> Checkpoint] /\ valid' \in SUBSET (Blocks \X (0..BlockSize))
    <3>1. PICK done \in Confirmed(p) : MarkVerified(p, rCheckpoint[p], done, {})
      BY <1>5 DEF NextCmdLost
    <3>2. done \in Seq(Source) /\ rCheckpoint[p] \in Checkpoint
      BY ConfirmedType DEF ReceiverTypeOK
    <3>3. QED
      BY <3>1, <3>2, MarkVerifiedType
  <2>3. NetTypeOK'
    BY <1>5, <2>2
       DEF NextCmdLost, NetTypeOK, Streams
  <2>4. ReceiverTypeOK'
    BY ZenonT(30), <1>5, <2>2, <2>v
       DEF NextCmdLost, ReceiverTypeOK, ReceiverStates, ControlStates
  <2>5. ReceiverInv'
    BY <1>5, <2>1, <2>2
       DEF NextCmdLost, ReceiverInv, ReceiverTypeOK, NetTypeOK
  <2>6. QED
    BY <2>3, <2>4, <2>5
<1>6. CASE ProcessSettingsOrSize(p)
  <2>1. rConn[p] # 0
    BY <1>6 DEF ProcessSettingsOrSize, ReceiverInv
  <2>2. toR' \in Streams
    BY <1>6, <2>1, ReceiverReadType DEF ProcessSettingsOrSize, ReceiverReads
  <2>3. NetTypeOK'
    BY <1>6, <2>2
       DEF ProcessSettingsOrSize, NetTypeOK, Streams
  <2>4. ReceiverTypeOK'
    BY ZenonT(30), <1>6
       DEF ProcessSettingsOrSize, ReceiverTypeOK, ReceiverStates, ControlStates
  <2>5. ReceiverInv'
    BY <1>6, <2>1
       DEF ProcessSettingsOrSize, ReceiverInv, ReceiverTypeOK, NetTypeOK
  <2>6. QED
    BY <2>3, <2>4, <2>5
<1>7. CASE ProcessFileCmd(p)
  <2>1. rConn[p] # 0
    BY ZenonT(30), <1>7 DEF ProcessFileCmd, ReceiverInv
  <2>2. toR' \in Streams
    BY ZenonT(30), <1>7, <2>1, ReceiverReadType DEF ProcessFileCmd, ReceiverReads
  <2>3. /\ Head(toR[p][rConn[p]]) \in Message
        /\ Head(toR[p][rConn[p]]).cmd = "FILE"
    BY Zenon, <1>7, <2>1, ReceiverReadType DEF ProcessFileCmd, ReceiverReads
  <2>4. /\ Head(toR[p][rConn[p]]).src \in Source
        /\ Head(toR[p][rConn[p]]).got \in 0..SizeOf(Head(toR[p][rConn[p]]).src)
    BY <2>3, FileMessageType
  <2>5. rCheckpoint[p] \in Checkpoint /\ ResetLastBlockDetails(rCheckpoint[p]) \in Checkpoint
    BY ResetType DEF ReceiverTypeOK
  <2>6. /\ <<Head(toR[p][rConn[p]]).src>> \in Seq(Source) /\ <<>> \in Seq(Source)
        /\ rVerify[p] \in Seq(Source)
        /\ Append(rVerify[p], Head(toR[p][rConn[p]]).src) \in Seq(Source)
    <3>1. \A s \in Source, v \in Seq(Source) :
             <<s>> \in Seq(Source) /\ <<>> \in Seq(Source) /\ Append(v, s) \in Seq(Source)
      OBVIOUS
    <3>2. rVerify[p] \in Seq(Source)
      BY DEF ReceiverTypeOK
    <3>3. QED
      BY <2>4, <3>1, <3>2
  <2>7. \E srcs \in Seq(Source) :
           MarkVerified(p, ResetLastBlockDetails(rCheckpoint[p]), srcs, {})
    BY ZenonT(30), <1>7, <2>6, ConfirmedType DEF ProcessFileCmd
  <2>8. rCheckpoint' \in [Ports -> Checkpoint] /\ valid' \in SUBSET (Blocks \X (0..BlockSize))
    BY <2>5, <2>7, MarkVerifiedType
  <2>9. rVerify' \in [Ports -> Seq(Source)]
    BY ZenonT(30), <1>7, <2>6 DEF ProcessFileCmd, ReceiverTypeOK
  <2>10. ckIndex' \in [Ports -> Nat]
    BY <1>7 DEF ProcessFileCmd, ReceiverTypeOK
  <2>11. NetTypeOK'
    BY ZenonT(30), <1>7, <2>2
       DEF ProcessFileCmd, NetTypeOK, Streams
  <2>12. ReceiverTypeOK'
    BY ZenonT(30), <1>7, <2>8, <2>10, <2>9
       DEF ProcessFileCmd, ReceiverTypeOK, ReceiverStates, ControlStates
  <2>13. ReceiverInv'
    BY <1>7, <2>1
       DEF ProcessFileCmd, ReceiverInv, ReceiverTypeOK, NetTypeOK
  <2>14. QED
    BY <2>11, <2>12, <2>13
<1>8. CASE PartialFileCmd(p)
  <2>1. rConn[p] # 0
    BY ZenonT(30), <1>8 DEF PartialFileCmd, ReceiverInv
  <2>2. /\ toR' \in Streams /\ rOpen' \in [Ports -> BOOLEAN]
        /\ rErr' \in [Ports -> BOOLEAN] /\ rVerify' \in [Ports -> Seq(Source)]
        /\ rState' = [rState EXCEPT ![p] = "ACCEPT_WITH_TIMEOUT"]
    BY ZenonT(30), <1>8, AcceptAgainType DEF PartialFileCmd
  <2>3. /\ Head(toR[p][rConn[p]]) \in Message
        /\ Head(toR[p][rConn[p]]).cmd = "FILE"
    BY ZenonT(30), <1>8, <2>1, ReceiverReadType DEF PartialFileCmd, ReceiverReads
  <2>4. /\ Head(toR[p][rConn[p]]).src \in Source
        /\ Head(toR[p][rConn[p]]).got \in 0..SizeOf(Head(toR[p][rConn[p]]).src)
    BY <2>3, FileMessageType
  <2>5. rCheckpoint[p] \in Checkpoint /\ ResetLastBlockDetails(rCheckpoint[p]) \in Checkpoint
    BY ResetType DEF ReceiverTypeOK
  <2>6. /\ SetLastBlockDetails(ResetLastBlockDetails(rCheckpoint[p]), Head(toR[p][rConn[p]]).src,
                               Head(toR[p][rConn[p]]).got) \in Checkpoint
        /\ BytesOf(Head(toR[p][rConn[p]]).src, Head(toR[p][rConn[p]]).got)
             \in SUBSET (Blocks \X (0..BlockSize))
    BY ZenonT(30), <2>4, <2>5, SetLastBlockType, BytesOfType
  <2>7. \E done \in Confirmed(p), ck \in Checkpoint, part \in SUBSET (Blocks \X (0..BlockSize)) :
           MarkVerified(p, ck, done, part)
    BY ZenonT(30), <1>8, <2>5, <2>6 DEF PartialFileCmd
  <2>8. rCheckpoint' \in [Ports -> Checkpoint] /\ valid' \in SUBSET (Blocks \X (0..BlockSize))
    BY <2>7, ConfirmedType, MarkVerifiedType
  <2>9. ckIndex' \in [Ports -> Nat]
    BY ZenonT(30), <1>8 DEF PartialFileCmd, ReceiverTypeOK
  <2>10. NetTypeOK'
    BY ZenonT(30), <1>8, <2>2
       DEF PartialFileCmd, NetTypeOK, Streams
  <2>11. ReceiverTypeOK'
    BY ZenonT(30), <1>8, <2>2, <2>8, <2>9
       DEF PartialFileCmd, ReceiverTypeOK, ReceiverStates, ControlStates
  <2>12. ReceiverInv'
    BY <1>8, <2>1, <2>2
       DEF PartialFileCmd, ReceiverInv, ReceiverTypeOK, NetTypeOK
  <2>13. QED
    BY <2>10, <2>11, <2>12
<1>9. CASE ChecksumMismatch(p)
  <2>1. rConn[p] # 0
    BY <1>9 DEF ChecksumMismatch, ReceiverInv
  <2>2. /\ toR' \in Streams /\ rOpen' \in [Ports -> BOOLEAN]
        /\ rErr' \in [Ports -> BOOLEAN] /\ rVerify' \in [Ports -> Seq(Source)]
        /\ rState' = [rState EXCEPT ![p] = "ACCEPT_WITH_TIMEOUT"]
    BY <1>9, AcceptAgainType DEF ChecksumMismatch
  <2>3. rCheckpoint[p] \in Checkpoint /\ ResetLastBlockDetails(rCheckpoint[p]) \in Checkpoint
    BY ResetType DEF ReceiverTypeOK
  <2>4. rCheckpoint' \in [Ports -> Checkpoint]
    BY <1>9, <2>3 DEF ChecksumMismatch, ReceiverTypeOK
  <2>5. ckIndex' \in [Ports -> Nat]
    BY <1>9 DEF ChecksumMismatch, ReceiverTypeOK
  <2>6. breaks' \in 0..MaxBreaks
    <3>1. breaks < MaxBreaks /\ breaks' = breaks + 1
      BY <1>9 DEF ChecksumMismatch
    <3>2. breaks \in 0..MaxBreaks /\ MaxBreaks \in Nat
      BY ConnectionsAssumption DEF NetTypeOK
    <3>3. QED
      BY <3>1, <3>2
  <2>7. NetTypeOK'
    BY <1>9, <2>2, <2>6
       DEF ChecksumMismatch, NetTypeOK, Streams
  <2>8. ReceiverTypeOK'
    BY Zenon, <1>9, <2>2, <2>4, <2>5
       DEF ChecksumMismatch, ReceiverTypeOK, ReceiverStates, ControlStates
  <2>9. ReceiverInv'
    BY <1>9, <2>1, <2>2
       DEF ChecksumMismatch, ReceiverInv, ReceiverTypeOK, NetTypeOK
  <2>10. QED
    BY <2>7, <2>8, <2>9
<1>10. CASE FileWriteFails(p)
  <2>1. rConn[p] # 0
    BY <1>10 DEF FileWriteFails, ReceiverInv
  <2>2. toR' \in Streams /\ rOpen' \in [Ports -> BOOLEAN]
    BY Zenon, <1>10, ReceiverClosesType DEF FileWriteFails
  <2>3. toS' \in Streams
    BY <1>10, <2>1, ReceiverWriteType, CmdType DEF FileWriteFails, Cmds
  <2>4. /\ Head(toR[p][rConn[p]]) \in Message
        /\ Head(toR[p][rConn[p]]).cmd = "FILE"
    BY ZenonT(30), <1>10, <2>1, ReceiverReadType DEF FileWriteFails, ReceiverReads
  <2>5. /\ Head(toR[p][rConn[p]]).src \in Source
        /\ Head(toR[p][rConn[p]]).got \in 0..SizeOf(Head(toR[p][rConn[p]]).src)
    BY <2>4, FileMessageType
  <2>6. rCheckpoint[p] \in Checkpoint /\ ResetLastBlockDetails(rCheckpoint[p]) \in Checkpoint
    BY ResetType DEF ReceiverTypeOK
  <2>7. /\ rCheckpoint' \in [Ports -> Checkpoint]
        /\ valid' \in SUBSET (Blocks \X (0..BlockSize))
        /\ rVerify' \in [Ports -> Seq(Source)]
    <3> DEFINE s == Head(toR[p][rConn[p]]).src
               ck == ResetLastBlockDetails(rCheckpoint[p])
               trusted == FooterType = "NO_FOOTER"
    <3>1. PICK n \in 0..(IF trusted THEN Head(toR[p][rConn[p]]).got ELSE 0), done \in Confirmed(p) :
            /\ MarkVerified(p, IF trusted THEN SetLastBlockDetails(ck, s, n) ELSE ck, done,
                            IF trusted THEN BytesOf(s, n) ELSE {})
            /\ rVerify' = [rVerify EXCEPT ![p] = IF done = <<>> THEN rVerify[p] ELSE <<>>]
      BY ZenonT(30), <1>10 DEF FileWriteFails
    <3>2. n \in 0..SizeOf(s)
      <4>1. \A k \in 0..BlockSize : \A g \in 0..k : 0..g \subseteq 0..k /\ 0..0 \subseteq 0..k
        BY BlockSizeAssumption
      <4>2. s \in Source /\ SizeOf(s) \in 0..BlockSize
        BY Zenon, <2>5, SizeOfType
      <4> HIDE DEF s
      <4>3. Head(toR[p][rConn[p]]).got \in 0..SizeOf(s)
        BY <2>5 DEF s
      <4>4. QED
        BY <4>1, <4>2, <4>3
    <3>3. /\ SetLastBlockDetails(ck, s, n) \in Checkpoint /\ ck \in Checkpoint
          /\ BytesOf(s, n) \in SUBSET (Blocks \X (0..BlockSize))
          /\ done \in Seq(Source)
          /\ (IF done = <<>> THEN rVerify[p] ELSE <<>>) \in Seq(Source)
      BY Zenon, <2>5, <2>6, <3>2, SetLastBlockType, BytesOfType, ConfirmedType
    <3> HIDE DEF s, ck, trusted
    <3>4. \E c \in Checkpoint, part \in SUBSET (Blocks \X (0..BlockSize)) :
             MarkVerified(p, c, done, part)
      BY <3>1, <3>3
    <3>5. rCheckpoint' \in [Ports -> Checkpoint] /\ valid' \in SUBSET (Blocks \X (0..BlockSize))
      BY <3>3, <3>4, MarkVerifiedType
    <3>6. QED
      BY ZenonT(30), <3>1, <3>3, <3>5 DEF ReceiverTypeOK
  <2>8. ckIndex' \in [Ports -> Nat]
    BY <1>10 DEF FileWriteFails, ReceiverTypeOK
  <2>9. diskErrors' \in 0..MaxDiskErrors
    <3>1. diskErrors < MaxDiskErrors /\ diskErrors' = diskErrors + 1
      BY <1>10 DEF FileWriteFails
    <3>2. diskErrors \in 0..MaxDiskErrors /\ MaxDiskErrors \in Nat
      BY DiskErrorsAssumption DEF ReceiverTypeOK
    <3>3. QED
      BY <3>1, <3>2
  <2>10. NetTypeOK'
    BY <1>10, <2>2, <2>3
       DEF FileWriteFails, ReceiverFails, ReceiverMoves, NetTypeOK, Streams
  <2>11. ReceiverTypeOK'
    BY ZenonT(30), <1>10, <2>8, <2>7, <2>9
       DEF FileWriteFails, ReceiverFails, ReceiverMoves, ReceiverTypeOK, ReceiverStates, ControlStates
  <2>12. ReceiverInv'
    BY <1>10, <2>1
       DEF FileWriteFails, ReceiverFails, ReceiverMoves, ReceiverInv, ReceiverTypeOK, NetTypeOK
  <2>13. QED
    BY <2>10, <2>11, <2>12
<1>11. CASE ProcessDone(p)
  <2>1. rConn[p] # 0
    BY <1>11 DEF ProcessDone, ReceiverInv
  <2>2. toR' \in Streams
    BY <1>11, <2>1, ReceiverReadType DEF ProcessDone, ReceiverReads
  <2>3. ckIndex' \in [Ports -> Nat]
    BY <1>11 DEF ProcessDone, ReceiverTypeOK
  <2>v. /\ rCheckpoint' \in [Ports -> Checkpoint]
        /\ valid' \in SUBSET (Blocks \X (0..BlockSize))
        /\ rVerify' \in [Ports -> Seq(Source)]
    <3>1. PICK done \in Confirmed(p) :
             /\ MarkVerified(p, rCheckpoint[p], done, {})
             /\ rVerify' = [rVerify EXCEPT ![p] = IF done = <<>> THEN rVerify[p] ELSE <<>>]
      BY ZenonT(30), <1>11 DEF ProcessDone
    <3>2. /\ done \in Seq(Source) /\ rCheckpoint[p] \in Checkpoint
          /\ (IF done = <<>> THEN rVerify[p] ELSE <<>>) \in Seq(Source)
      BY ConfirmedType DEF ReceiverTypeOK
    <3>3. rCheckpoint' \in [Ports -> Checkpoint] /\ valid' \in SUBSET (Blocks \X (0..BlockSize))
      BY <3>1, <3>2, MarkVerifiedType
    <3>4. QED
      BY ZenonT(30), <3>1, <3>2, <3>3 DEF ReceiverTypeOK
  <2>4. NetTypeOK'
    BY <1>11, <2>2
       DEF ProcessDone, ReceiverMoves, NetTypeOK, Streams
  <2>5. ReceiverTypeOK'
    BY <1>11, <2>3, <2>v
       DEF ProcessDone, ReceiverMoves, ReceiverTypeOK, ReceiverStates, ControlStates
  <2>6. ReceiverInv'
    BY <1>11, <2>1
       DEF ProcessDone, ReceiverMoves, ReceiverInv, ReceiverTypeOK, NetTypeOK
  <2>7. QED
    BY <2>4, <2>5, <2>6
<1>12. CASE CheckForFinishOrNewCheckpoints(p)
  <2>1. rConn[p] # 0
    BY ZenonT(30), <1>12 DEF CheckForFinishOrNewCheckpoints, ReceiverInv
  <2>2. NewCheckpoints(p) \in Seq(Checkpoint)
    BY DEF NewCheckpoints, ReceiverTypeOK
  <2>3. newCks' \in [Ports -> Seq(Checkpoint)]
    BY ZenonT(30), <1>12, <2>2 DEF CheckForFinishOrNewCheckpoints, ReceiverTypeOK
  <2>4. NetTypeOK'
    BY <1>12
       DEF CheckForFinishOrNewCheckpoints, ReceiverMoves, netVars, NetTypeOK, Streams
  <2>5. ReceiverTypeOK'
    BY ZenonT(30), <1>12, <2>3
       DEF CheckForFinishOrNewCheckpoints, ReceiverMoves, netVars, ReceiverTypeOK, ReceiverStates, ControlStates
  <2>6. ReceiverInv'
    BY ZenonT(30), <1>12, <2>1
       DEF CheckForFinishOrNewCheckpoints, ReceiverMoves, netVars, ReceiverInv, ReceiverTypeOK, NetTypeOK
  <2>7. QED
    BY <2>4, <2>5, <2>6
<1>13. CASE SendWait(p)
  <2>1. rConn[p] # 0
    BY ZenonT(30), <1>13 DEF SendWait, ReceiverInv
  <2>2. Cmd("WAIT") \in Message
    BY CmdType DEF Cmds
  <2>3. toS' \in Streams
    BY ZenonT(30), <1>13, <2>1, ReceiverWriteType, <2>2 DEF SendWait
  <2>4. \/ AcceptAgain(p)
        \/ /\ rState' = [rState EXCEPT ![p] = "WAIT_FOR_FINISH_OR_NEW_CHECKPOINT"]
           /\ UNCHANGED <<rErr, rVerify, toR, rOpen>>
    BY <1>13 DEF SendWait, ReceiverMoves
  <2>5. /\ toR' \in Streams /\ rOpen' \in [Ports -> BOOLEAN]
        /\ rErr' \in [Ports -> BOOLEAN] /\ rVerify' \in [Ports -> Seq(Source)]
        /\ rState' \in [Ports -> ReceiverStates]
    BY ZenonT(30), <2>4, AcceptAgainType DEF NetTypeOK, ReceiverTypeOK, ReceiverStates, Streams
  <2>6. NetTypeOK'
    BY <1>13, <2>5, <2>3
       DEF SendWait, NetTypeOK, Streams
  <2>7. ReceiverTypeOK'
    BY ZenonT(30), <1>13, <2>5
       DEF SendWait, ReceiverTypeOK, ReceiverStates, ControlStates
  <2>8. ReceiverInv'
    BY ZenonT(30), <1>13, <2>1
       DEF SendWait, ReceiverInv, ReceiverTypeOK, NetTypeOK, AcceptAgain, ReceiverFails, ReceiverMoves
  <2>9. QED
    BY <2>6, <2>7, <2>8
<1>14. CASE SendGlobalCheckpoint(p)
  <2>1. rConn[p] # 0
    BY ZenonT(30), <1>14 DEF SendGlobalCheckpoint, ReceiverInv
  <2>2. newCks[p] \in Seq(Checkpoint) /\ Len(newCks[p]) \in Nat
    BY DEF ReceiverTypeOK
  <2>3. CheckpointCmd("ERR", newCks[p]) \in Message
    BY <2>2, CheckpointCmdType
  <2>4. toS' \in Streams
    BY ZenonT(30), <1>14, <2>1, ReceiverWriteType, <2>3 DEF SendGlobalCheckpoint
  <2>5. \/ AcceptAgain(p)
        \/ rState' = [rState EXCEPT ![p] = "READ_NEXT_CMD"] /\ UNCHANGED <<rErr, rVerify, toR, rOpen>>
    BY ZenonT(30), <1>14 DEF SendGlobalCheckpoint, ReceiverMoves
  <2>6. /\ toR' \in Streams /\ rOpen' \in [Ports -> BOOLEAN]
        /\ rErr' \in [Ports -> BOOLEAN] /\ rVerify' \in [Ports -> Seq(Source)]
        /\ rState' \in [Ports -> ReceiverStates]
    BY ZenonT(30), <2>5, AcceptAgainType DEF NetTypeOK, ReceiverTypeOK, ReceiverStates, Streams
  <2>7. ckIndex[p] + Len(newCks[p]) \in Nat
    BY <2>2 DEF ReceiverTypeOK
  <2>8. pendingIndex' \in [Ports -> Nat]
    BY ZenonT(30), <1>14, <2>7 DEF SendGlobalCheckpoint, ReceiverTypeOK
  <2>9. NetTypeOK'
    BY ZenonT(30), <1>14, <2>6, <2>4
       DEF SendGlobalCheckpoint, NetTypeOK, Streams
  <2>10. ReceiverTypeOK'
    BY ZenonT(30), <1>14, <2>6, <2>8
       DEF SendGlobalCheckpoint, ReceiverTypeOK, ReceiverStates, ControlStates
  <2>11. ReceiverInv'
    BY ZenonT(30), <1>14, <2>1
       DEF SendGlobalCheckpoint, ReceiverInv, ReceiverTypeOK, NetTypeOK, AcceptAgain, ReceiverFails, ReceiverMoves
  <2>12. QED
    BY <2>9, <2>10, <2>11
<1>15. CASE SendDone(p)
  <2>1. rConn[p] # 0
    BY ZenonT(30), <1>15 DEF SendDone, ReceiverInv
  <2>2. Cmd("DONE") \in Message
    BY CmdType DEF Cmds
  <2>3. toS' \in Streams
    BY ZenonT(30), <1>15, <2>1, ReceiverWriteType, <2>2 DEF SendDone
  <2>4. \/ AcceptAgain(p)
        \/ rState' = [rState EXCEPT ![p] = "READ_DONE_ACK"] /\ UNCHANGED <<rErr, rVerify, toR, rOpen>>
    BY <1>15 DEF SendDone, ReceiverMoves
  <2>5. /\ toR' \in Streams /\ rOpen' \in [Ports -> BOOLEAN]
        /\ rErr' \in [Ports -> BOOLEAN] /\ rVerify' \in [Ports -> Seq(Source)]
        /\ rState' \in [Ports -> ReceiverStates]
    BY ZenonT(30), <2>4, AcceptAgainType DEF NetTypeOK, ReceiverTypeOK, ReceiverStates, Streams
  <2>6. NetTypeOK'
    BY <1>15, <2>5, <2>3
       DEF SendDone, NetTypeOK, Streams
  <2>7. ReceiverTypeOK'
    BY <1>15, <2>5
       DEF SendDone, ReceiverTypeOK, ReceiverStates, ControlStates
  <2>8. ReceiverInv'
    BY ZenonT(30), <1>15, <2>1
       DEF SendDone, ReceiverInv, ReceiverTypeOK, NetTypeOK, AcceptAgain, ReceiverFails, ReceiverMoves
  <2>9. QED
    BY <2>6, <2>7, <2>8
<1>16. CASE ReadDoneAck(p)
  <2>1. rConn[p] # 0
    BY ZenonT(30), <1>16 DEF ReadDoneAck, ReceiverInv
  <2>2. toR' \in Streams /\ rOpen' \in [Ports -> BOOLEAN]
    BY ZenonT(30), <1>16, ReceiverClosesType DEF ReadDoneAck
  <2>3. Cmd("EOS") \in Message
    BY CmdType DEF Cmds
  <2>4. toS' \in Streams
    BY ZenonT(30), <1>16, <2>1, <2>3, ReceiverWriteType DEF ReadDoneAck, NetTypeOK, Streams
  <2>5. rVerify[p] \in Seq(Source) /\ <<>> \in Seq(Source) /\ rCheckpoint[p] \in Checkpoint
    BY DEF ReceiverTypeOK
  <2>6. rCheckpoint' \in [Ports -> Checkpoint] /\ valid' \in SUBSET (Blocks \X (0..BlockSize))
    BY ZenonT(30), <1>16, <2>5, MarkVerifiedType DEF ReadDoneAck
  <2>7. rVerify' \in [Ports -> Seq(Source)]
    BY <1>16, <2>5 DEF ReadDoneAck, ReceiverTypeOK
  <2>8. NetTypeOK'
    BY ZenonT(30), <1>16, <2>2, <2>4
       DEF ReadDoneAck, ReceiverMoves, NetTypeOK, Streams
  <2>9. ReceiverTypeOK'
    BY <1>16, <2>6, <2>7
       DEF ReadDoneAck, ReceiverMoves, ReceiverTypeOK, ReceiverStates, ControlStates
  <2>10. ReceiverInv'
    BY <1>16, <2>1
       DEF ReadDoneAck, ReceiverMoves, ReceiverInv, ReceiverTypeOK, NetTypeOK
  <2>11. QED
    BY <2>8, <2>9, <2>10
<1>17. CASE FinishWithError(p)
  <2>1. checkpoints' \in Seq(Checkpoint)
    <3>1. /\ checkpoints' = Append(checkpoints, rCheckpoint[p])
          /\ checkpoints \in Seq(Checkpoint) /\ rCheckpoint[p] \in Checkpoint
      BY <1>17 DEF FinishWithError, ReceiverTypeOK
    <3>2. QED
      BY <3>1
  <2>2. NetTypeOK'
    BY <1>17
       DEF FinishWithError, ReceiverMoves, NetTypeOK, Streams
  <2>3. ReceiverTypeOK'
    BY <1>17, <2>1
       DEF FinishWithError, ReceiverMoves, ReceiverTypeOK, ReceiverStates, ControlStates
  <2>4. ReceiverInv'
    BY <1>17
       DEF FinishWithError, ReceiverMoves, ReceiverInv, ReceiverTypeOK, NetTypeOK
  <2>5. QED
    BY <2>2, <2>3, <2>4
<1>18. QED
  BY <1>1, <1>2, <1>3, <1>4, <1>5, <1>6, <1>7, <1>8, <1>9, <1>10, <1>11, <1>12, <1>13, <1>14, <1>15, <1>16, <1>17 DEF ReceiverStep

-----------------------------------------------------------------------------
(* Sender::finish keeps the types of the sender. *)
LEMMA FinishType ==
    ASSUME SenderTypes, Finish
    PROVE  SenderTypes'
<1>1. CASE AllSourcesAcked
  <2>1. hist' = [p \in Ports |-> MarkAllAcknowledged(hist[p])] /\ queue' = queue
    BY Zenon, <1>1 DEF Finish
  <2>2. hist' \in [Ports -> History]
    BY <2>1, HistoryUpdateType DEF SenderTypes
  <2>3. QED
    BY <2>1, <2>2 DEF Finish, SenderTypes
<1>2. CASE ~AllSourcesAcked
  <2> DEFINE unacked == UNION {UnackedSources(hist[p], p) : p \in Ports}
  <2>1. /\ hist' = [p \in Ports |-> ReturnUnackedSources(hist[p], p)]
        /\ queue' = queue \cup unacked
    BY <1>2 DEF Finish, ReturnToQueue
  <2>2. hist' \in [Ports -> History] /\ unacked \subseteq Source
    BY <2>1, ReturnUnackedType DEF SenderTypes
  <2> HIDE DEF unacked
  <2>3. QED
    BY <2>1, <2>2 DEF Finish, SenderTypes
<1>3. QED
  BY <1>1, <1>2

(* A failing connection keeps the types of the connections. *)
LEMMA BreakType ==
    ASSUME NetTypeOK, NEW p \in Ports, NEW i \in Conns, Break(p, i)
    PROVE  NetTypeOK'
<1>1. toR \in Streams /\ toS \in Streams
  BY DEF NetTypeOK, Streams
<1>2. toR[p][i] \in Seq(Message) /\ toS[p][i] \in Seq(Message)
  BY <1>1, StreamOf
<1>3. PICK r \in Cuts(toR[p][i]), s \in Cuts(toS[p][i]) :
        /\ toR' = [toR EXCEPT ![p][i] = r]
        /\ toS' = [toS EXCEPT ![p][i] = s]
  BY Zenon DEF Break
<1>4. r \in Seq(Message) /\ s \in Seq(Message)
  BY <1>2, CutsType
<1>5. toR' \in Streams /\ toS' \in Streams
  BY Zenon, <1>1, <1>3, <1>4, StreamUpdate
<1>6. up' \in [Ports -> [Conns -> BOOLEAN]]
  <2>1. up' = [up EXCEPT ![p] = [up[p] EXCEPT ![i] = FALSE]]
    BY DEF Break
  <2>2. QED
    BY <2>1 DEF NetTypeOK
<1>7. breaks' \in 0..MaxBreaks
  BY ConnectionsAssumption DEF Break, NetTypeOK
<1>8. QED
  BY <1>5, <1>6, <1>7 DEF Break, NetTypeOK, Streams

(* The types, with what the handlers of both sides rely on, is inductive. *)
TypeInv == NetTypeOK /\ SenderTypes /\ ReceiverTypeOK /\ SenderInv /\ ReceiverInv

(* The threads start in states of the right types. *)
LEMMA InitTypeInv == Init => TypeInv
<1> SUFFICES ASSUME Init PROVE TypeInv
  OBVIOUS
<1>1. <<>> \in Seq(Message) /\ <<>> \in Seq(Source) /\ <<>> \in Seq(Checkpoint)
  OBVIOUS
<1>2. NetTypeOK
  BY <1>1, ConnectionsAssumption DEF Init, NetInit, NetTypeOK
<1>3. NewHistory \in History
  BY <1>1 DEF NewHistory, History
<1>4. queue \in SUBSET Source
  <2>1. 0 \in 0..BlockSize
    BY BlockSizeAssumption
  <2>2. \A s \in [blk : Blocks, off : {0}] : s \in [blk : Blocks, off : 0..BlockSize]
    BY <2>1
  <2>3. QED
    BY <2>2 DEF Source, Init, SenderInit
<1>5. SenderTypes
  <2>1. hist \in [Ports -> History] /\ toApply \in [Ports -> Seq(Checkpoint)]
    BY <1>1, <1>3 DEF Init, SenderInit
  <2>2. cur \in [Ports -> Source \cup {NoSource}]
    BY DEF Init, SenderInit
  <2>3. sState \in [Ports -> SenderStates] /\ sErr \in [Ports -> SenderErrors]
    BY DEF Init, SenderInit, SenderStates, SenderErrors
  <2>4. noProgress \in [Ports -> Nat]
    BY DEF Init, SenderInit
  <2>5. sizeSent \in [Ports -> BOOLEAN] /\ sent \in [Ports -> BOOLEAN]
    BY DEF Init, SenderInit
  <2>6. aborted \in BOOLEAN /\ rejected \in SUBSET Ports /\ finished \in BOOLEAN
    BY Zenon DEF Init, SenderInit
  <2>7. QED
    BY <1>4, <2>1, <2>2, <2>3, <2>4, <2>5, <2>6 DEF SenderTypes
<1>6. ReceiverTypeOK
  <2>1. rCheckpoint \in [Ports -> Checkpoint]
    BY NewCheckpointType DEF Init, ReceiverInit
  <2>2. /\ rVerify \in [Ports -> Seq(Source)] /\ newCks \in [Ports -> Seq(Checkpoint)]
        /\ checkpoints \in Seq(Checkpoint)
    BY <1>1 DEF Init, ReceiverInit
  <2>3. rState \in [Ports -> ReceiverStates] /\ control \in [Ports -> ControlStates]
    BY DEF Init, ReceiverInit, ReceiverStates, ControlStates
  <2>4. ckIndex \in [Ports -> Nat] /\ pendingIndex \in [Ports -> Nat]
    BY DEF Init, ReceiverInit
  <2>5. rErr \in [Ports -> BOOLEAN] /\ settings \in [Ports -> BOOLEAN] /\ started \in BOOLEAN
    BY Zenon DEF Init, ReceiverInit
  <2>6. diskErrors \in 0..MaxDiskErrors /\ valid \in SUBSET (Blocks \X (0..BlockSize))
    BY DiskErrorsAssumption DEF Init, ReceiverInit
  <2>7. QED
    BY <2>1, <2>2, <2>3, <2>4, <2>5, <2>6 DEF ReceiverTypeOK
<1>7. SenderInv /\ ReceiverInv
  BY DEF Init, SenderInit, ReceiverInit, SenderInv, ReceiverInv
<1>8. QED
  BY <1>2, <1>5, <1>6, <1>7 DEF TypeInv

(* A step of a sender thread changes nothing the receiver threads rely on. *)
LEMMA SenderKeepsReceiverConnection ==
    ASSUME NEW p \in Ports, SenderStep(p)
    PROVE  rConn' = rConn
BY Zenon DEF SenderStep, AbortThread, ConnectToReceiver, GiveUpConnecting, ReadLocalCheckPoint,
       LocalCheckPointLost, SendSettings, SendSizeCmd, SendOneByteSource, AddSourceToHistory,
       SendDoneCmd, CheckForAbort, ProcessAbortCmd, ReceiverCmdLost, SpuriousCheckpoint,
       ProcessWaitCmd, ProcessDoneCmd, ExpectEndOfStream, ProcessErrCmd,
       HandleGlobalCheckpoint, GlobalCheckpointApplied, netVars

(* A step of a receiver thread changes nothing the sender threads rely on. *)
LEMMA ReceiverKeepsSenderConnection ==
    ASSUME NEW p \in Ports, ReceiverStep(p)
    PROVE  sConn' = sConn
BY Zenon DEF ReceiverStep, AcceptFirstConnection, AcceptWithTimeout, AcceptTimesOut,
       SendLocalCheckpoint, NextCmdLost, ProcessSettingsOrSize, ProcessFileCmd,
       PartialFileCmd, ChecksumMismatch, FileWriteFails, ProcessDone,
       CheckForFinishOrNewCheckpoints, SendWait, SendGlobalCheckpoint, SendDone, ReadDoneAck,
       FinishWithError, netVars

(* The type invariant, with what the handlers rely on, is inductive. *)
LEMMA NextTypeInv == TypeInv /\ [Next]_vars => TypeInv'
<1> SUFFICES ASSUME TypeInv, [Next]_vars PROVE TypeInv'
  OBVIOUS
<1> USE DEF TypeInv
<1>1. ASSUME NEW p \in Ports, SenderStep(p), UNCHANGED receiverVars
      PROVE  TypeInv'
  <2>1. NetTypeOK' /\ SenderTypes' /\ SenderInv'
    BY <1>1, SenderStepType
  <2>2. ReceiverTypeOK'
    BY <1>1 DEF receiverVars, ReceiverTypeOK
  <2>3. ReceiverInv'
    BY <1>1, SenderKeepsReceiverConnection DEF receiverVars, ReceiverInv
  <2>4. QED
    BY <2>1, <2>2, <2>3
<1>2. ASSUME NEW p \in Ports, ReceiverStep(p), UNCHANGED senderVars
      PROVE  TypeInv'
  <2>1. NetTypeOK' /\ ReceiverTypeOK' /\ ReceiverInv'
    BY <1>2, ReceiverStepType
  <2>2. SenderTypes'
    BY <1>2 DEF senderVars, SenderTypes
  <2>3. SenderInv'
    BY Zenon, <1>2, ReceiverKeepsSenderConnection DEF senderVars, SenderInv
  <2>4. QED
    BY <2>1, <2>2, <2>3
<1>3. ASSUME Finish, UNCHANGED receiverVars
      PROVE  TypeInv'
  <2>1. SenderTypes'
    BY <1>3, FinishType
  <2>2. ReceiverTypeOK'
    BY <1>3 DEF receiverVars, ReceiverTypeOK
  <2>3. NetTypeOK'
    BY Zenon, <1>3 DEF Finish, netVars, NetTypeOK
  <2>4. SenderInv' /\ ReceiverInv'
    BY Zenon, <1>3 DEF Finish, netVars, receiverVars, SenderInv, ReceiverInv
  <2>5. QED
    BY <2>1, <2>2, <2>3, <2>4
<1>4. ASSUME NEW p \in Ports, NEW i \in Conns, Break(p, i), UNCHANGED <<senderVars, receiverVars>>
      PROVE  TypeInv'
  <2>1. NetTypeOK'
    BY <1>4, BreakType
  <2>2. SenderTypes' /\ ReceiverTypeOK'
    BY <1>4 DEF senderVars, receiverVars, SenderTypes, ReceiverTypeOK
  <2>3. SenderInv' /\ ReceiverInv'
    BY <1>4 DEF Break, senderVars, receiverVars, SenderInv, ReceiverInv
  <2>4. QED
    BY <2>1, <2>2, <2>3
<1>5. CASE UNCHANGED vars
  <2>1. NetTypeOK'
    BY <1>5 DEF vars, netVars, NetTypeOK
  <2>2. SenderTypes' /\ ReceiverTypeOK'
    BY <1>5 DEF vars, senderVars, receiverVars, SenderTypes, ReceiverTypeOK
  <2>3. SenderInv' /\ ReceiverInv'
    BY Zenon, <1>5 DEF vars, netVars, senderVars, receiverVars, SenderInv, ReceiverInv
  <2>4. QED
    BY <2>1, <2>2, <2>3
<1>6. QED
  BY <1>1, <1>2, <1>3, <1>4, <1>5 DEF Next

(* The types, and what the handlers rely on, hold in every state. *)
THEOREM TypeInvariant == Spec => []TypeInv
BY InitTypeInv, NextTypeInv, PTL DEF Spec
=============================================================================

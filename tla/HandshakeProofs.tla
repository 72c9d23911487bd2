-------------------------- MODULE HandshakeProofs --------------------------
(***************************************************************************)
(* The checks of the receiver threads never fail, for any number of ports, *)
(* blocks, connections and failures: no stream gives a receiver thread     *)
(* another command before it has had the SETTINGS of the sender.           *)
(***************************************************************************)
EXTENDS TransferProofs

(* The states of a sender thread that has written SETTINGS to its connection. *)
AfterSettings == SenderStates \ {"CONNECT", "READ_LOCAL_CHECKPOINT", "SEND_SETTINGS", "END"}

(* Whatever a receiver thread can read next is SETTINGS, unless it has had it. *)
SettingsFirst ==
    \A p \in Ports : \A i \in Conns :
        toR[p][i] # <<>> => Head(toR[p][i]).cmd = "SETTINGS" \/ settings[p]

(* As long as the sender reaches the receiver its SETTINGS are on the way. *)
SettingsOnTheWay ==
    \A p \in Ports :
        sState[p] \in AfterSettings /\ ReachesReceiver(p)
            => settings[p] \/ toR[p][sConn[p]] # <<>>

(* An error is recorded in the states that end or accept a connection only, and
   a receiver thread that waits has had the settings. *)
ErrorStates ==
    \A p \in Ports :
        /\ rErr[p] => rState[p] \in {"ACCEPT_WITH_TIMEOUT", "FINISH_WITH_ERROR", "END"}
        /\ rState[p] = "FINISH_WITH_ERROR" => rErr[p]
        /\ rState[p] \in {"WAIT_FOR_FINISH_OR_NEW_CHECKPOINT", "SEND_WAIT_CMD"} => settings[p]

(* Nothing comes before SETTINGS, and SETTINGS comes. *)
Handshake == SettingsFirst /\ SettingsOnTheWay

-----------------------------------------------------------------------------
(* The sender *)

(* A step that writes nothing and enters no state after SETTINGS. *)
LEMMA NoWrite ==
    ASSUME Handshake, toR' = toR, UNCHANGED <<settings, up, rConn, rOpen, listening>>,
           \A q \in Ports : sState'[q] \in AfterSettings
                              => sState[q] \in AfterSettings /\ sConn'[q] = sConn[q]
    PROVE  Handshake'
BY DEF Handshake, SettingsFirst, SettingsOnTheWay, ReachesReceiver, ReceiverClosed

(* A message is added to the stream of the connection: the first command of
   the stream stays, or is SETTINGS. *)
LEMMA AppendFirst ==
    ASSUME NetTypeOK, Handshake, NEW p \in Ports, NEW m \in Message, sConn[p] # 0,
           sState[p] \in AfterSettings \/ m.cmd = "SETTINGS", ReachesReceiver(p),
           toR' = [toR EXCEPT ![p][sConn[p]] = Append(@, m)], settings' = settings
    PROVE  /\ SettingsFirst'
           /\ toR'[p][sConn[p]] # <<>>
           /\ \A q \in Ports \ {p} : toR'[q] = toR[q]
<1> DEFINE c == sConn[p]
<1>1. c \in Conns /\ toR \in Streams /\ toR[p][c] \in Seq(Message)
  BY ConnectionsAssumption, StreamOf DEF NetTypeOK, Conns, Streams
<1>2. /\ toR'[p][c] = Append(toR[p][c], m)
      /\ \A q \in Ports : \A i \in Conns : q # p \/ i # c => toR'[q][i] = toR[q][i]
      /\ \A q \in Ports \ {p} : toR'[q] = toR[q]
  BY <1>1 DEF Streams
<1>3. /\ toR'[p][c] # <<>>
      /\ toR[p][c] = <<>> => Head(toR'[p][c]) = m
      /\ toR[p][c] # <<>> => Head(toR'[p][c]) = Head(toR[p][c])
  <2>1. PICK s \in Seq(Message) : s = toR[p][c]
    BY <1>1
  <2>2. /\ Append(s, m) # <<>>
        /\ s = <<>> => Append(s, m)[1] = m
        /\ s # <<>> => Append(s, m)[1] = s[1]
    OBVIOUS
  <2>3. Head(Append(s, m)) = Append(s, m)[1] /\ (s # <<>> => Head(s) = s[1])
    OBVIOUS
  <2>4. QED
    BY <1>2, <2>1, <2>2, <2>3
<1>4. toR[p][c] = <<>> => m.cmd = "SETTINGS" \/ settings[p]
  BY DEF Handshake, SettingsOnTheWay
<1> HIDE DEF c
<1>5. ASSUME NEW q \in Ports, NEW i \in Conns, toR'[q][i] # <<>>
      PROVE  Head(toR'[q][i]).cmd = "SETTINGS" \/ settings'[q]
  <2>1. CASE q = p /\ i = c
    BY <1>3, <1>4, <2>1 DEF Handshake, SettingsFirst
  <2>2. CASE q # p \/ i # c
    <3>1. toR'[q][i] = toR[q][i]
      BY <1>2, <2>2
    <3>2. Head(toR[q][i]).cmd = "SETTINGS" \/ settings[q]
      BY Zenon, <1>5, <3>1 DEF Handshake, SettingsFirst
    <3>3. QED
      BY Zenon, <3>1, <3>2
  <2>3. QED
    BY <2>1, <2>2
<1>6. SettingsFirst'
  BY <1>5 DEF SettingsFirst
<1>7. QED
  BY <1>2, <1>3, <1>6 DEF c

(* A successful write of a sender thread. *)
LEMMA WriteHandshake ==
    ASSUME NetTypeOK, Handshake, NEW p \in Ports, NEW m \in Message, sConn[p] # 0,
           sState[p] \in AfterSettings \/ m.cmd = "SETTINGS",
           SenderWriteOk(p, m),
           UNCHANGED <<settings, up, sConn, rConn, rOpen, listening>>,
           \A q \in Ports \ {p} : sState'[q] = sState[q]
    PROVE  Handshake'
<1>1. CASE ReachesReceiver(p)
  <2>1. toR' = [toR EXCEPT ![p][sConn[p]] = Append(@, m)]
    BY <1>1 DEF SenderWriteOk
  <2>2. /\ SettingsFirst'
        /\ toR'[p][sConn[p]] # <<>>
        /\ \A q \in Ports \ {p} : toR'[q] = toR[q]
    BY Zenon, <1>1, <2>1, AppendFirst
  <2>3. SettingsOnTheWay'
    BY <2>2 DEF Handshake, SettingsOnTheWay, ReachesReceiver, ReceiverClosed
  <2>4. QED
    BY <2>2, <2>3 DEF Handshake
<1>2. CASE ~ReachesReceiver(p)
  <2>1. toR' = toR
    BY <1>2 DEF SenderWriteOk
  <2>2. QED
    BY <1>2, <2>1 DEF Handshake, SettingsFirst, SettingsOnTheWay, ReachesReceiver, ReceiverClosed
<1>3. QED
  BY <1>1, <1>2

(* sendBlocks: a block is written, wholly, in part or not at all. *)
LEMMA BlockHandshake ==
    ASSUME NetTypeOK, SenderTypes, SenderInv, Handshake, UNCHANGED receiverVars,
           NEW p \in Ports, SendOneByteSource(p)
    PROVE  Handshake'
<1>1. /\ sState[p] \in AfterSettings /\ sConn[p] # 0
      /\ UNCHANGED <<settings, sConn, rConn, rOpen, listening>>
      /\ sState' = [sState EXCEPT ![p] = "ADD_SOURCE"]
  BY DEF SendOneByteSource, SenderAt, SenderMoves, SenderInv, AfterSettings, SenderStates, receiverVars
<1>2. /\ \A q \in Ports \ {p} : sState'[q] = sState[q]
      /\ \A q \in Ports : sState'[q] \in AfterSettings => sState[q] \in AfterSettings
  BY <1>1 DEF SenderTypes
<1>3. PICK s \in queue :
        \/ SenderWriteOk(p, FileCmd(s)) /\ up' = up
        \/ SenderWriteFails(p) /\ up' = up
        \/ /\ ReachesReceiver(p)
           /\ up' = [up EXCEPT ![p][sConn[p]] = FALSE]
           /\ \E m \in CutCommand(FileCmd(s)) :
                 toR' = [toR EXCEPT ![p][sConn[p]] = Append(@, m)]
  BY DEF SendOneByteSource
<1>4. s \in Source /\ FileCmd(s) \in Message
  BY FileCmdType DEF SenderTypes
<1>5. CASE SenderWriteOk(p, FileCmd(s)) /\ up' = up
  BY <1>1, <1>2, <1>4, <1>5, WriteHandshake
<1>6. CASE SenderWriteFails(p) /\ up' = up
  BY <1>1, <1>2, <1>6, NoWrite DEF SenderWriteFails
<1>7. ASSUME ReachesReceiver(p), up' = [up EXCEPT ![p][sConn[p]] = FALSE],
             NEW m \in CutCommand(FileCmd(s)),
             toR' = [toR EXCEPT ![p][sConn[p]] = Append(@, m)]
      PROVE  Handshake'
  <2>1. m \in Message
    BY <1>4, CutCommandType
  <2>2. /\ SettingsFirst'
        /\ \A q \in Ports \ {p} : toR'[q] = toR[q]
    BY Zenon, <1>1, <1>7, <2>1, AppendFirst
  <2>3. ~up'[p][sConn[p]] /\ \A q \in Ports \ {p} : up'[q] = up[q]
    BY <1>1, <1>7, ConnectionsAssumption DEF NetTypeOK, Conns
  <2>4. SettingsOnTheWay'
    BY <1>1, <1>2, <2>2, <2>3 DEF Handshake, SettingsOnTheWay, ReachesReceiver, ReceiverClosed
  <2>5. QED
    BY <2>2, <2>4 DEF Handshake
<1>8. QED
  BY <1>3, <1>5, <1>6, <1>7

(* Every handler of a sender thread writes SETTINGS first. *)
LEMMA SenderHandshake ==
    ASSUME NetTypeOK, SenderTypes, SenderInv, Handshake, UNCHANGED receiverVars,
           NEW p \in Ports, SenderStep(p)
    PROVE  Handshake'
<1>a. settings' = settings /\ sState \in [Ports -> SenderStates]
  BY DEF receiverVars, SenderTypes
<1>b. ASSUME NEW st, NEW err, SenderMoves(p, st, err)
      PROVE  sState'[p] = st /\ \A q \in Ports \ {p} : sState'[q] = sState[q]
  BY <1>a, <1>b DEF SenderMoves
<1>c. ASSUME NEW st \in {"CONNECT", "READ_LOCAL_CHECKPOINT", "SEND_SETTINGS", "END"}, NEW err,
             SenderMoves(p, st, err), toR' = toR, UNCHANGED <<up, rConn, rOpen, listening>>,
             \A q \in Ports \ {p} : sConn'[q] = sConn[q]
      PROVE  Handshake'
  <2>1. \A q \in Ports : sState'[q] \in AfterSettings
                           => sState[q] \in AfterSettings /\ sConn'[q] = sConn[q]
    BY <1>b, <1>c DEF AfterSettings
  <2>2. QED
    BY <1>a, <1>c, <2>1, NoWrite
<1>d. ASSUME sState[p] \in AfterSettings, NEW st, NEW err, SenderMoves(p, st, err), toR' = toR,
             UNCHANGED <<up, sConn, rConn, rOpen, listening>>
      PROVE  Handshake'
  <2>1. \A q \in Ports : sState'[q] \in AfterSettings
                           => sState[q] \in AfterSettings /\ sConn'[q] = sConn[q]
    BY <1>b, <1>d
  <2>2. QED
    BY <1>a, <1>d, <2>1, NoWrite
<1>e. ASSUME sState[p] \in AfterSettings, NEW m \in Message, SenderWriteOk(p, m),
             NEW st, NEW err, SenderMoves(p, st, err),
             UNCHANGED <<up, sConn, rConn, rOpen, listening>>
      PROVE  Handshake'
  <2>1. sConn[p] # 0
    BY <1>e DEF SenderInv, AfterSettings
  <2>2. QED
    BY <1>a, <1>b, <1>e, <2>1, WriteHandshake
<1>f. \A st \in {"SEND_BLOCKS", "ADD_SOURCE", "CHECK_FOR_ABORT", "READ_RECEIVER_CMD",
                  "PROCESS_ERR_CMD", "WAIT_NOT_IN_USE", "EXPECT_EOS"} : st \in AfterSettings
  BY DEF AfterSettings, SenderStates
<1>1. CASE AbortThread(p)
  BY <1>1, <1>c DEF AbortThread, SenderEnds
<1>2. CASE ConnectToReceiver(p)
  <2>1. \A q \in Ports \ {p} : sConn'[q] = sConn[q]
    BY <1>2 DEF ConnectToReceiver, Connect, NetTypeOK
  <2>2. QED
    BY <1>2, <1>c, <2>1 DEF ConnectToReceiver
<1>3. CASE GiveUpConnecting(p)
  BY <1>3, <1>c DEF GiveUpConnecting, SenderEnds
<1>4. CASE ReadLocalCheckPoint(p)
  BY Zenon, <1>4, <1>c DEF ReadLocalCheckPoint, SenderEnds
<1>5. CASE LocalCheckPointLost(p)
  BY <1>5, <1>c DEF LocalCheckPointLost, Reconnect
<1>6. CASE SendSettings(p)
  <2>1. CASE SenderWriteOk(p, Cmd("SETTINGS"))
    <3>1. Cmd("SETTINGS") \in Message /\ Cmd("SETTINGS").cmd = "SETTINGS"
      BY CmdType DEF Cmds, Cmd
    <3>2. sConn[p] # 0 /\ \A q \in Ports \ {p} : sState'[q] = sState[q]
      BY <1>6, <1>b DEF SendSettings, SenderAt, SenderInv, Reconnect
    <3>3. UNCHANGED <<up, sConn, rConn, rOpen, listening>>
      BY <1>6 DEF SendSettings
    <3>4. QED
      BY <1>a, <2>1, <3>1, <3>2, <3>3, WriteHandshake
  <2>2. CASE SenderWriteFails(p) /\ Reconnect(p, "SOCKET_WRITE_ERROR")
    BY <1>6, <1>c, <2>2 DEF SendSettings, SenderWriteFails, Reconnect
  <2>3. QED
    BY <1>6, <2>1, <2>2 DEF SendSettings
<1>7. CASE SendSizeCmd(p)
  <2>1. Cmd("SIZE") \in Message
    BY CmdType DEF Cmds
  <2>2. QED
    BY <1>7, <1>d, <1>e, <1>f, <2>1 DEF SendSizeCmd, SenderAt, SenderWriteFails
<1>8. CASE SendOneByteSource(p)
  BY <1>8, BlockHandshake
<1>9. CASE AddSourceToHistory(p)
  BY <1>9, <1>d, <1>f DEF AddSourceToHistory, SenderEnds
<1>10. CASE SendDoneCmd(p)
  <2>1. Cmd("DONE") \in Message
    BY CmdType DEF Cmds
  <2>2. QED
    BY <1>10, <1>d, <1>e, <1>f, <2>1 DEF SendDoneCmd, SenderAt, SenderWriteFails
<1>11. CASE CheckForAbort(p)
  BY <1>11, <1>c DEF CheckForAbort, Reconnect
<1>12. CASE ProcessAbortCmd(p)
  BY <1>12, <1>c DEF ProcessAbortCmd, SenderEnds
<1>13. CASE ReceiverCmdLost(p)
  BY <1>13, <1>c DEF ReceiverCmdLost, Reconnect
<1>14. CASE SpuriousCheckpoint(p)
  <2>1. CASE SenderEnds(p, "PROTOCOL_ERROR", hist)
    BY <1>14, <1>c, <2>1 DEF SpuriousCheckpoint, SenderEnds
  <2>2. CASE UNCHANGED <<sState, sErr, hist, sOpen>>
    BY Zenon, <1>14, <1>a, <2>2, NoWrite DEF SpuriousCheckpoint
  <2>3. QED
    BY <1>14, <2>1, <2>2 DEF SpuriousCheckpoint
<1>15. CASE ProcessWaitCmd(p)
  BY <1>15, <1>a, NoWrite DEF ProcessWaitCmd
<1>16. CASE ProcessDoneCmd(p)
  <2>1. Cmd("DONE") \in Message
    BY CmdType DEF Cmds
  <2>2. \E st, err : SenderMoves(p, st, err)
    BY <1>16 DEF ProcessDoneCmd, SenderEnds
  <2>3. /\ sState[p] = "READ_RECEIVER_CMD" /\ SenderWriteOk(p, Cmd("DONE"))
        /\ UNCHANGED <<up, sConn, rConn, rOpen, listening>>
    BY <1>16 DEF ProcessDoneCmd, SenderAt
  <2>4. QED
    BY <1>e, <1>f, <2>1, <2>2, <2>3
<1>17. CASE ExpectEndOfStream(p)
  BY <1>17, <1>c DEF ExpectEndOfStream, SenderEnds
<1>18. CASE ProcessErrCmd(p)
  <2>1. \E st, err : SenderMoves(p, st, err)
    BY <1>18 DEF ProcessErrCmd, Reconnect
  <2>2. sState[p] = "READ_RECEIVER_CMD" /\ UNCHANGED <<toR, up, sConn, rConn, rOpen, listening>>
    BY <1>18 DEF ProcessErrCmd, SenderAt
  <2>3. QED
    BY <1>d, <1>f, <2>1, <2>2
<1>19. CASE HandleGlobalCheckpoint(p)
  BY <1>19, <1>d, <1>f DEF HandleGlobalCheckpoint, netVars
<1>20. CASE GlobalCheckpointApplied(p)
  BY <1>20, <1>d, <1>f DEF GlobalCheckpointApplied, netVars
<1>21. QED
  BY <1>1, <1>2, <1>3, <1>4, <1>5, <1>6, <1>7, <1>8, <1>9, <1>10, <1>11, <1>12, <1>13, <1>14,
     <1>15, <1>16, <1>17, <1>18, <1>19, <1>20 DEF SenderStep

-----------------------------------------------------------------------------
(* The receiver and the network *)

(* A step of the receiver that reads nothing and closes nothing. *)
LEMMA NoRead ==
    ASSUME Handshake, toR' = toR, UNCHANGED <<settings, up, sState, sConn>>,
           \A q \in Ports : ReachesReceiver(q)' => ReachesReceiver(q)
    PROVE  Handshake'
BY DEF Handshake, SettingsFirst, SettingsOnTheWay

(* A receiver thread reads a command: by then it has had the settings. *)
LEMMA ReadHandshake ==
    ASSUME NetTypeOK, ReceiverTypeOK, Handshake, NEW p \in Ports, rConn[p] # 0, ReceiverConsumes(p),
           settings'[p] = TRUE, \A q \in Ports \ {p} : settings'[q] = settings[q],
           UNCHANGED <<up, sState, sConn, rConn, rOpen, listening>>
    PROVE  Handshake'
<1>1. toR \in Streams /\ rConn[p] \in Conns
  BY ConnectionsAssumption DEF NetTypeOK, Conns, Streams
<1>2. \A q \in Ports \ {p} : toR'[q] = toR[q]
  BY <1>1 DEF ReceiverConsumes, Streams
<1>3. QED
  BY <1>2 DEF Handshake, SettingsFirst, SettingsOnTheWay, ReachesReceiver, ReceiverClosed

(* A receiver thread closes its connection: what is left in it is lost, and
   the sender does not reach the receiver through it any more. *)
LEMMA CloseHandshake ==
    ASSUME NetTypeOK, Handshake, NEW p \in Ports, rConn[p] # 0, ReceiverCloses(p),
           UNCHANGED <<settings, up, sState, sConn, rConn>>,
           \A q \in Ports : listening'[q] => listening[q]
    PROVE  Handshake'
<1>1. toR \in Streams /\ rConn[p] \in Conns
  BY ConnectionsAssumption DEF NetTypeOK, Conns, Streams
<1>2. /\ toR'[p][rConn[p]] = <<>>
      /\ \A i \in Conns : i # rConn[p] => toR'[p][i] = toR[p][i]
      /\ \A q \in Ports \ {p} : toR'[q] = toR[q]
  BY <1>1 DEF ReceiverCloses, Streams
<1>3. rOpen'[p] = FALSE /\ \A q \in Ports \ {p} : rOpen'[q] = rOpen[q]
  BY DEF ReceiverCloses, NetTypeOK
<1>4. SettingsFirst'
  BY <1>2 DEF Handshake, SettingsFirst
<1>5. ASSUME NEW q \in Ports, sState'[q] \in AfterSettings, ReachesReceiver(q)'
      PROVE  settings'[q] \/ toR'[q][sConn'[q]] # <<>>
  <2>1. ReachesReceiver(q) /\ (q = p => sConn[q] # rConn[q])
    BY <1>3, <1>5 DEF ReachesReceiver, ReceiverClosed
  <2>2. settings[q] \/ toR[q][sConn[q]] # <<>>
    BY <1>5, <2>1 DEF Handshake, SettingsOnTheWay
  <2>3. toR'[q][sConn[q]] = toR[q][sConn[q]]
    <3>1. CASE q # p
      BY <1>2, <3>1
    <3>2. CASE q = p
      BY <1>1, <2>1, <3>2 DEF ReceiverCloses, Streams
    <3>3. QED
      BY <3>1, <3>2
  <2>4. QED
    BY <2>2, <2>3
<1>6. QED
  BY <1>4, <1>5 DEF Handshake, SettingsOnTheWay

(* What a failing connection leaves of a stream starts as the stream did: there
   is no part of a SETTINGS command. *)
LEMMA CutsHead ==
    ASSUME NEW s \in Seq(Message), NEW c \in Cuts(s), c # <<>>
    PROVE  s # <<>> /\ Head(c).cmd = Head(s).cmd
<1>1. /\ Len(c) <= Len(s) /\ c[1].cmd = s[1].cmd /\ c \in Seq(Message) /\ Len(c) # 0
  BY CutsPrefix, CutsType
<1>2. Head(c) = c[1] /\ Head(s) = s[1] /\ s # <<>>
  BY <1>1
<1>3. QED
  BY <1>1, <1>2

(* A connection fails. *)
LEMMA BreakHandshake ==
    ASSUME NetTypeOK, Handshake, NEW p \in Ports, NEW i \in Conns, Break(p, i),
           UNCHANGED <<senderVars, receiverVars>>
    PROVE  Handshake'
<1>1. toR \in Streams /\ toR[p][i] \in Seq(Message)
  BY StreamOf DEF NetTypeOK, Streams
<1>2. PICK r \in Cuts(toR[p][i]) : toR' = [toR EXCEPT ![p][i] = r]
  BY Zenon DEF Break
<1>3. /\ toR'[p][i] = r
      /\ \A q \in Ports, j \in Conns : q # p \/ j # i => toR'[q][j] = toR[q][j]
  BY <1>1, <1>2 DEF Streams
<1>4. r # <<>> => toR[p][i] # <<>> /\ Head(r).cmd = Head(toR[p][i]).cmd
  BY <1>1, <1>2, CutsHead
<1>5. UNCHANGED <<settings, sState, sConn, rConn, rOpen, listening>>
  BY DEF Break, senderVars, receiverVars
<1>6. /\ up'[p][i] = FALSE
      /\ \A q \in Ports : \A j : up'[q][j] => up[q][j]
  BY DEF Break, NetTypeOK
<1>7. ASSUME NEW q \in Ports, NEW j \in Conns, toR'[q][j] # <<>>
      PROVE  Head(toR'[q][j]).cmd = "SETTINGS" \/ settings'[q]
  <2>1. CASE q = p /\ j = i
    BY <1>3, <1>4, <1>5, <1>7, <2>1 DEF Handshake, SettingsFirst
  <2>2. CASE q # p \/ j # i
    <3>1. toR'[q][j] = toR[q][j]
      BY <1>3, <2>2
    <3>2. QED
      BY <1>5, <1>7, <3>1 DEF Handshake, SettingsFirst
  <2>3. QED
    BY <2>1, <2>2
<1>8. ASSUME NEW q \in Ports, sState'[q] \in AfterSettings, ReachesReceiver(q)'
      PROVE  settings'[q] \/ toR'[q][sConn'[q]] # <<>>
  <2>1. ReachesReceiver(q) /\ (q # p \/ sConn[q] # i)
    BY <1>5, <1>6, <1>8 DEF ReachesReceiver, ReceiverClosed
  <2>2. toR'[q][sConn[q]] = toR[q][sConn[q]]
    BY <1>1, <1>2, <2>1 DEF Streams
  <2>3. QED
    BY <1>5, <1>8, <2>1, <2>2 DEF Handshake, SettingsOnTheWay
<1>9. QED
  BY <1>7, <1>8 DEF Handshake, SettingsFirst, SettingsOnTheWay

(* A connection number below another one is neither above nor equal to it: what
   the comparison of the two ends' connections in ReceiverClosed needs. *)
LEMMA StrictlyLess ==
    ASSUME NEW a \in Nat, NEW b \in Nat, a < b
    PROVE  ~(b < a) /\ b # a
  OBVIOUS

(* Every handler of a receiver thread keeps the handshake: it reads a command
   other than SETTINGS only after SETTINGS. *)
LEMMA ReceiverHandshake ==
    ASSUME NetTypeOK, ReceiverTypeOK, ReceiverInv, Handshake, UNCHANGED senderVars,
           NEW p \in Ports, ReceiverStep(p)
    PROVE  Handshake'
<1>a. sState' = sState /\ settings \in [Ports -> BOOLEAN]
  BY DEF senderVars, ReceiverTypeOK
<1>b. ASSUME Accept(p), UNCHANGED <<up, sConn, listening>>
      PROVE  \A q \in Ports : ReachesReceiver(q)' => ReachesReceiver(q)
  <2>a. rConn[p] \in Nat /\ sConn[p] \in Nat
    BY ConnectionsAssumption DEF NetTypeOK
  <2>b. rConn[p] < sConn[p]
    BY Zenon, <1>b DEF Accept
  <2>c. ~(sConn[p] < rConn[p]) /\ sConn[p] # rConn[p]
    BY Zenon, <2>a, <2>b, StrictlyLess
  <2>1. \A q \in Ports \ {p} : rConn'[q] = rConn[q] /\ rOpen'[q] = rOpen[q]
    BY <1>b DEF Accept, NetTypeOK
  <2>2. ASSUME NEW q \in Ports, ReachesReceiver(q)'
        PROVE  ReachesReceiver(q)
    <3>1. up'[q][sConn'[q]] /\ up' = up /\ sConn' = sConn /\ listening' = listening
      BY Zenon, <1>b, <2>2 DEF ReachesReceiver
    <3>2. ~ReceiverClosed(q, sConn[q])'
      BY Zenon, <1>b, <2>2 DEF ReachesReceiver, ReceiverClosed
    <3>3. CASE q = p
      <4>1. ~ReceiverClosed(p, sConn[p])
        BY Zenon, <2>c, <3>1, <3>2, <3>3 DEF ReceiverClosed
      <4>2. QED
        BY Zenon, <3>1, <3>3, <4>1 DEF ReachesReceiver
    <3>4. CASE q # p
      BY Zenon, <2>1, <3>1, <3>2, <3>4 DEF ReachesReceiver, ReceiverClosed
    <3>5. QED
      BY Zenon, <3>3, <3>4
  <2>3. QED
    BY Zenon, <2>2
<1>c. ASSUME UNCHANGED <<up, sConn, rConn, rOpen>>, \A q \in Ports : listening'[q] => listening[q]
      PROVE  \A q \in Ports : ReachesReceiver(q)' => ReachesReceiver(q)
  BY <1>c DEF ReachesReceiver, ReceiverClosed
<1>d. ASSUME rConn[p] # 0, NEW c \in Cmds \ {"SETTINGS"}, ReceiverReads(p, c)
      PROVE  settings[p] = TRUE
  <2>1. rConn[p] \in Conns
    BY <1>d, ConnectionsAssumption DEF NetTypeOK, Conns
  <2>2. QED
    BY <1>a, <1>d, <2>1 DEF ReceiverReads, Handshake, SettingsFirst
<1>e. \A c \in {"SIZE", "FILE", "DONE"} : c \in Cmds \ {"SETTINGS"}
  BY DEF Cmds
<1>f. \A st \in {"SEND_LOCAL_CHECKPOINT", "READ_NEXT_CMD", "WAIT_FOR_FINISH_OR_NEW_CHECKPOINT",
                  "SEND_WAIT_CMD", "SEND_GLOBAL_CHECKPOINTS", "SEND_DONE_CMD", "READ_DONE_ACK"} :
          rState[p] = st => rConn[p] # 0
  BY DEF ReceiverInv
<1>1. CASE AcceptFirstConnection(p)
  <2>1. CASE Accept(p)
    BY <1>1, <1>a, <1>b, <2>1, NoRead DEF AcceptFirstConnection
  <2>2. CASE UNCHANGED <<rConn, rOpen>>
    BY <1>1, <1>a, <1>c, <2>2, NoRead DEF AcceptFirstConnection
  <2>3. QED
    BY <1>1, <2>1, <2>2 DEF AcceptFirstConnection
<1>2. CASE AcceptWithTimeout(p)
  BY <1>2, <1>a, <1>b, NoRead DEF AcceptWithTimeout
<1>3. CASE AcceptTimesOut(p)
  BY Zenon, <1>3, <1>a, <1>c, NoRead DEF AcceptTimesOut, netVars
<1>4. CASE SendLocalCheckpoint(p)
  <2>1. CASE AcceptAgain(p)
    BY Zenon, <1>4, <1>a, <1>f, <2>1, CloseHandshake DEF SendLocalCheckpoint, AcceptAgain
  <2>2. CASE UNCHANGED <<toR, rOpen>>
    BY Zenon, <1>4, <1>a, <1>c, <2>2, NoRead DEF SendLocalCheckpoint
  <2>3. QED
    BY Zenon, <1>4, <2>1, <2>2 DEF SendLocalCheckpoint
<1>5. CASE NextCmdLost(p)
  BY Zenon, <1>5, <1>a, <1>f, CloseHandshake DEF NextCmdLost, AcceptAgain
<1>6. CASE ProcessSettingsOrSize(p)
  <2>1. rConn[p] # 0 /\ ReceiverConsumes(p) /\ UNCHANGED <<up, sConn, rConn, rOpen, listening>>
    BY Zenon, <1>6, <1>f DEF ProcessSettingsOrSize
  <2>2. settings'[p] = TRUE /\ \A q \in Ports \ {p} : settings'[q] = settings[q]
    BY Zenon, <1>6, <1>a, <1>d, <1>e, <2>1 DEF ProcessSettingsOrSize
  <2>3. QED
    BY Zenon, <1>a, <2>1, <2>2, ReadHandshake
<1>7. CASE ProcessFileCmd(p)
  <2>1. /\ rConn[p] # 0 /\ ReceiverConsumes(p) /\ ReceiverReads(p, "FILE")
        /\ UNCHANGED <<settings, up, sConn, rConn, rOpen, listening>>
    BY Zenon, <1>7, <1>f DEF ProcessFileCmd
  <2>2. QED
    BY Zenon, <1>a, <1>d, <1>e, <2>1, ReadHandshake
<1>8. CASE PartialFileCmd(p)
  BY Zenon, <1>8, <1>a, <1>f, CloseHandshake DEF PartialFileCmd, AcceptAgain
<1>9. CASE ChecksumMismatch(p)
  BY Zenon, <1>9, <1>a, <1>f, CloseHandshake DEF ChecksumMismatch, AcceptAgain
<1>10. CASE FileWriteFails(p)
  BY <1>10, <1>a, <1>f, CloseHandshake DEF FileWriteFails
<1>11. CASE ProcessDone(p)
  <2>1. /\ rConn[p] # 0 /\ ReceiverConsumes(p) /\ ReceiverReads(p, "DONE")
        /\ UNCHANGED <<settings, up, sConn, rConn, rOpen, listening>>
    BY <1>11, <1>f DEF ProcessDone
  <2>2. QED
    BY Zenon, <1>a, <1>d, <1>e, <2>1, ReadHandshake
<1>12. CASE CheckForFinishOrNewCheckpoints(p)
  BY <1>12, <1>a, <1>c, NoRead DEF CheckForFinishOrNewCheckpoints, netVars
<1>13. CASE SendWait(p)
  <2>1. CASE AcceptAgain(p)
    BY <1>13, <1>a, <1>f, <2>1, CloseHandshake DEF SendWait, AcceptAgain
  <2>2. CASE UNCHANGED <<toR, rOpen>>
    BY <1>13, <1>a, <1>c, <2>2, NoRead DEF SendWait
  <2>3. QED
    BY <1>13, <2>1, <2>2 DEF SendWait
<1>14. CASE SendGlobalCheckpoint(p)
  <2>1. CASE AcceptAgain(p)
    BY <1>14, <1>a, <1>f, <2>1, CloseHandshake DEF SendGlobalCheckpoint, AcceptAgain
  <2>2. CASE UNCHANGED <<toR, rOpen>>
    BY Zenon, <1>14, <1>a, <1>c, <2>2, NoRead DEF SendGlobalCheckpoint
  <2>3. QED
    BY Zenon, <1>14, <2>1, <2>2 DEF SendGlobalCheckpoint
<1>15. CASE SendDone(p)
  <2>1. CASE AcceptAgain(p)
    BY <1>15, <1>a, <1>f, <2>1, CloseHandshake DEF SendDone, AcceptAgain
  <2>2. CASE UNCHANGED <<toR, rOpen>>
    BY Zenon, <1>15, <1>a, <1>c, <2>2, NoRead DEF SendDone
  <2>3. QED
    BY <1>15, <2>1, <2>2 DEF SendDone
<1>16. CASE ReadDoneAck(p)
  <2>1. \A q \in Ports : listening'[q] => listening[q]
    BY Zenon, <1>16 DEF ReadDoneAck, NetTypeOK
  <2>2. QED
    BY <1>16, <1>a, <1>f, <2>1, CloseHandshake DEF ReadDoneAck
<1>17. CASE FinishWithError(p)
  <2>1. \A q \in Ports : listening'[q] => listening[q]
    BY <1>17 DEF FinishWithError, NetTypeOK
  <2>2. QED
    BY <1>17, <1>a, <1>c, <2>1, NoRead DEF FinishWithError
<1>18. QED
  BY <1>1, <1>2, <1>3, <1>4, <1>5, <1>6, <1>7, <1>8, <1>9, <1>10, <1>11, <1>12, <1>13, <1>14,
     <1>15, <1>16, <1>17 DEF ReceiverStep

(* Every handler of a receiver thread records an error when it fails and none
   when it does not, and waits only after it has read DONE. *)
LEMMA ReceiverErrorStates ==
    ASSUME NetTypeOK, ReceiverTypeOK, ReceiverInv, Handshake, ErrorStates,
           NEW p \in Ports, ReceiverStep(p)
    PROVE  ErrorStates'
<1>a. rState \in [Ports -> ReceiverStates] /\ rErr \in [Ports -> BOOLEAN]
      /\ settings \in [Ports -> BOOLEAN]
  BY DEF ReceiverTypeOK
<1>b. ASSUME AcceptAgain(p), settings' = settings
      PROVE  ErrorStates'
  BY <1>a, <1>b DEF AcceptAgain, ReceiverFails, ReceiverMoves, ErrorStates
<1>c. ASSUME rState[p] \notin {"ACCEPT_WITH_TIMEOUT", "FINISH_WITH_ERROR", "END"}, rErr' = rErr,
             settings' = settings, NEW st, ReceiverMoves(p, st), st # "FINISH_WITH_ERROR",
             st \in {"WAIT_FOR_FINISH_OR_NEW_CHECKPOINT", "SEND_WAIT_CMD"} => settings[p]
      PROVE  ErrorStates'
  BY <1>a, <1>c DEF ReceiverMoves, ErrorStates
<1>1. CASE AcceptFirstConnection(p)
  BY Zenon, <1>1, <1>a DEF AcceptFirstConnection, ReceiverMoves, ReceiverFails, ErrorStates
<1>2. CASE AcceptWithTimeout(p)
  BY <1>2, <1>a DEF AcceptWithTimeout, ReceiverMoves, ErrorStates
<1>3. CASE AcceptTimesOut(p)
  BY Zenon, <1>3, <1>a DEF AcceptTimesOut, ReceiverMoves, ReceiverFails, ErrorStates
<1>4. CASE SendLocalCheckpoint(p)
  BY Zenon, <1>4, <1>b, <1>c DEF SendLocalCheckpoint
<1>5. CASE NextCmdLost(p)
  BY Zenon, <1>5, <1>b DEF NextCmdLost
<1>6. CASE ProcessSettingsOrSize(p)
  BY <1>6, <1>a DEF ProcessSettingsOrSize, ErrorStates
<1>7. CASE ProcessFileCmd(p)
  BY Zenon, <1>7 DEF ProcessFileCmd, ErrorStates
<1>8. CASE PartialFileCmd(p)
  BY Zenon, <1>8, <1>b DEF PartialFileCmd
<1>9. CASE ChecksumMismatch(p)
  BY Zenon, <1>9, <1>b DEF ChecksumMismatch
<1>10. CASE FileWriteFails(p)
  BY <1>10, <1>a DEF FileWriteFails, ReceiverMoves, ReceiverFails, ErrorStates
<1>11. CASE ProcessDone(p)
  <2>1. rConn[p] \in Conns
    <3>1. rState[p] = "READ_NEXT_CMD"
      BY <1>11 DEF ProcessDone
    <3>2. rConn[p] # 0 /\ rConn[p] \in 0..MaxConns
      BY Zenon, <3>1 DEF ReceiverInv, NetTypeOK
    <3>3. QED
      BY <3>2, ConnectionsAssumption DEF Conns
  <2>2. settings[p]
    BY <1>11, <2>1 DEF ProcessDone, ReceiverReads, Handshake, SettingsFirst
  <2>3. QED
    BY <1>11, <1>c, <2>2 DEF ProcessDone
<1>12. CASE CheckForFinishOrNewCheckpoints(p)
  <2>1. settings[p]
    BY <1>12 DEF CheckForFinishOrNewCheckpoints, ErrorStates
  <2>2. QED
    BY Zenon, <1>12, <1>c, <2>1 DEF CheckForFinishOrNewCheckpoints
<1>13. CASE SendWait(p)
  <2>1. settings[p]
    BY Zenon, <1>13 DEF SendWait, ErrorStates
  <2>2. QED
    BY <1>13, <1>b, <1>c, <2>1 DEF SendWait
<1>14. CASE SendGlobalCheckpoint(p)
  BY <1>14, <1>b, <1>c DEF SendGlobalCheckpoint
<1>15. CASE SendDone(p)
  BY <1>15, <1>b, <1>c DEF SendDone
<1>16. CASE ReadDoneAck(p)
  BY <1>16, <1>c DEF ReadDoneAck
<1>17. CASE FinishWithError(p)
  BY <1>17, <1>a DEF FinishWithError, ReceiverMoves, ErrorStates
<1>18. QED
  BY <1>1, <1>2, <1>3, <1>4, <1>5, <1>6, <1>7, <1>8, <1>9, <1>10, <1>11, <1>12, <1>13, <1>14,
     <1>15, <1>16, <1>17 DEF ReceiverStep

-----------------------------------------------------------------------------
(* The inductive invariant behind the checks of the receiver threads. *)
HandshakeInv == TypeInv /\ Handshake /\ ErrorStates

(* Every step keeps the handshake. *)
LEMMA NextHandshake == HandshakeInv /\ [Next]_vars => Handshake' /\ ErrorStates'
<1> SUFFICES ASSUME TypeInv, Handshake, ErrorStates, [Next]_vars PROVE Handshake' /\ ErrorStates'
  BY DEF HandshakeInv
<1>0. NetTypeOK /\ SenderTypes /\ ReceiverTypeOK /\ SenderInv /\ ReceiverInv
  BY DEF TypeInv
<1>1. ASSUME UNCHANGED receiverVars PROVE ErrorStates'
  BY <1>1 DEF receiverVars, ErrorStates
<1>2. ASSUME NEW p \in Ports, SenderStep(p), UNCHANGED receiverVars PROVE Handshake'
  BY <1>0, <1>2, SenderHandshake
<1>3. ASSUME NEW p \in Ports, ReceiverStep(p), UNCHANGED senderVars
      PROVE  Handshake' /\ ErrorStates'
  BY <1>0, <1>3, ReceiverHandshake, ReceiverErrorStates
<1>4. ASSUME Finish, UNCHANGED receiverVars PROVE Handshake'
  BY Zenon, <1>4, NoWrite DEF Finish, netVars, receiverVars
<1>5. ASSUME NEW p \in Ports, NEW i \in Conns, Break(p, i), UNCHANGED <<senderVars, receiverVars>>
      PROVE  Handshake'
  BY <1>0, <1>5, BreakHandshake
<1>6. ASSUME UNCHANGED vars PROVE Handshake' /\ UNCHANGED receiverVars
  BY <1>6, NoWrite DEF vars, netVars, senderVars, receiverVars
<1>7. QED
  BY <1>1, <1>2, <1>3, <1>4, <1>5, <1>6 DEF Next, vars

(* The checks of the receiver threads never fail, for any number of ports,
   blocks, connections and failures: finishWithError always has an error to
   report, and waitForFinishOrNewCheckpoint has none and knows the timeouts that
   processSettingsCmd has read, whatever connections were lost before. *)
THEOREM ReceiverChecksHold == Spec => []ReceiverChecks
<1>1. Init => HandshakeInv
  <2> SUFFICES ASSUME Init PROVE HandshakeInv
    OBVIOUS
  <2>1. TypeInv
    BY InitTypeInv
  <2>2. Handshake /\ ErrorStates
    BY DEF Init, NetInit, SenderInit, ReceiverInit, Handshake, SettingsFirst, SettingsOnTheWay,
           ErrorStates, AfterSettings
  <2>3. QED
    BY <2>1, <2>2 DEF HandshakeInv
<1>2. HandshakeInv /\ [Next]_vars => HandshakeInv'
  BY NextTypeInv, NextHandshake DEF HandshakeInv
<1>3. HandshakeInv => ReceiverChecks
  BY DEF HandshakeInv, ErrorStates, ReceiverChecks
<1>4. QED
  BY <1>1, <1>2, <1>3, PTL DEF Spec
=============================================================================

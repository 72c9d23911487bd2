------------------------- MODULE VersionNegotiation -------------------------
(***************************************************************************)
(* Protocol version negotiation.  A receiver thread that meets a sender of *)
(* a higher version answers its settings with ABORT and VERSION_MISMATCH;  *)
(* the sender thread that reads it aborts the whole transfer with that     *)
(* code, all sender threads meet at a barrier, one of them changes the     *)
(* version and clears the abort, and all connect again.  A receiver thread *)
(* that meets a lower version changes its own.  Connections may break, the *)
(* application may abort, and a long-running receiver serves several       *)
(* senders.                                                                *)
(***************************************************************************)
EXTENDS ThreadsController, Integers, Sequences

CONSTANTS
    Threads,
    SenderVersions,     \* the protocol version of each sender, in turn
    ReceiverVersion,
    ChecksumVersion,    \* Protocol::CHECKSUM_VERSION
    AppMayAbort,        \* the application's abort checker may say so
    MaxFaults           \* bound on broken and refused connections, per sender

VARIABLES
    session,    \* the sender being served: an index of SenderVersions
    version,    \* the protocol version of the sender (WdtBase)
    abortCode,  \* WdtBase: abortCode_
    appAbort,   \* the application wants to stop
    status,     \* protoNegotiationStatus_
    barrier, funnel,
    s,          \* the sender threads
    r,          \* the receiver threads
    conn,       \* "none", "open" or "broken", for each thread
    up, down,   \* what is on the way, to the receiver and to the sender
    faults

parentVars == <<session, version, abortCode, appAbort, status>>
syncVars == <<barrier, funnel>>
wireVars == <<conn, up, down>>
vars == <<parentVars, syncVars, s, r, wireVars, faults>>

MinVersion == 10
Smaller(m, n) == IF m < n THEN m ELSE n

NegotiateProtocol_Requested(requested, current) ==
    IF requested < MinVersion THEN 0 ELSE requested

NegotiateProtocol(requested, current) ==
    IF requested < MinVersion THEN 0 ELSE Smaller(current, requested)

(* setFooterType *)
FooterType(v) == v >= ChecksumVersion

NewSenderThread(v) ==
    [pc |-> "CONNECT", checked |-> FALSE, err |-> "OK", version |-> v,
     footer |-> FooterType(v), offered |-> 0, negotiated |-> -1, acked |-> FALSE,
     outcome |-> "none"]
NewReceiverThread(v) == [pc |-> "ACCEPT", err |-> FALSE, version |-> v, footer |-> FALSE]

Init ==
    /\ session = 1
    /\ version = SenderVersions[1]
    /\ abortCode = "OK"
    /\ appAbort = FALSE
    /\ status = "V_MISMATCH_WAIT"
    /\ barrier = NewBarrier(Cardinality(Threads))
    /\ funnel = "START"
    /\ s = [t \in Threads |-> NewSenderThread(SenderVersions[1])]
    /\ r = [t \in Threads |-> NewReceiverThread(ReceiverVersion)]
    /\ conn = [t \in Threads |-> "none"]
    /\ up = [t \in Threads |-> <<>>]
    /\ down = [t \in Threads |-> <<>>]
    /\ faults = 0

-----------------------------------------------------------------------------
(* WdtBase *)

(* VERSION_MISMATCH is the code of lowest priority. *)
Abort(code) ==
    abortCode' = IF code = "VERSION_MISMATCH" /\ abortCode # "OK"
                 THEN abortCode ELSE code

ClearAbort ==
    abortCode' = IF abortCode = "VERSION_MISMATCH" THEN "OK" ELSE abortCode

CurAbortCode == IF appAbort THEN "ABORTED_BY_APPLICATION" ELSE abortCode

ApplicationAborts ==
    /\ AppMayAbort
    /\ ~appAbort
    /\ appAbort' = TRUE
    /\ UNCHANGED <<session, version, abortCode, status, syncVars, s, r, wireVars,
                   faults>>

-----------------------------------------------------------------------------
(* Connections *)

Drop(t) ==
    /\ conn' = [conn EXCEPT ![t] = "broken"]
    /\ up' = [up EXCEPT ![t] = <<>>]
    /\ down' = [down EXCEPT ![t] = <<>>]

Break(t) ==
    /\ faults < MaxFaults
    /\ conn[t] = "open"
    /\ faults' = faults + 1
    /\ Drop(t)
    /\ UNCHANGED <<parentVars, syncVars, s, r>>

ReadsUp(t) ==
    /\ up[t] # <<>>
    /\ up' = [up EXCEPT ![t] = Tail(@)]
    /\ UNCHANGED <<conn, down>>
ReadsDown(t) ==
    /\ down[t] # <<>>
    /\ down' = [down EXCEPT ![t] = Tail(@)]
    /\ UNCHANGED <<conn, up>>
Writes(queue, t, msg) ==
    queue' = IF conn[t] = "open" THEN [queue EXCEPT ![t] = Append(@, msg)] ELSE queue

-----------------------------------------------------------------------------
(* Sender threads.  Between any two states start() looks at the abort code. *)

Goto(t, state) == s' = [s EXCEPT ![t].pc = state, ![t].checked = FALSE]
Fails(t, state, code) ==
    s' = [s EXCEPT ![t].pc = state, ![t].checked = FALSE, ![t].err = code]
Ends(t) == s' = [s EXCEPT ![t].pc = "END", ![t].outcome = "failed"]

LoopStates == {"CONNECT", "READ_LOCAL_CHECKPOINT", "SEND_SETTINGS", "SEND_BLOCKS",
               "PROCESS_ABORT_CMD", "PROCESS_VERSION_MISMATCH"}

LoopTop(t) ==
    /\ s[t].pc \in LoopStates
    /\ ~s[t].checked
    /\ CASE CurAbortCode = "OK" -> s' = [s EXCEPT ![t].checked = TRUE]
         [] CurAbortCode = "VERSION_MISMATCH" ->
              s' = [s EXCEPT ![t].pc = "PROCESS_VERSION_MISMATCH",
                             ![t].checked = TRUE, ![t].err = "ABORT"]
         [] OTHER -> s' = [s EXCEPT ![t].pc = "END", ![t].err = "ABORT",
                                    ![t].outcome = "failed"]
    /\ UNCHANGED <<parentVars, syncVars, r, wireVars, faults>>

In(t, state) == s[t].pc = state /\ s[t].checked

(* A side that saw an error exchanges a local checkpoint first. *)
Connect(t) ==
    /\ In(t, "CONNECT")
    /\ r[t].pc = "ACCEPT"
    /\ conn' = [conn EXCEPT ![t] = "open"]
    /\ up' = [up EXCEPT ![t] = <<>>]
    /\ down' = [down EXCEPT ![t] = <<>>]
    /\ s' = [s EXCEPT ![t].pc = IF s[t].err = "OK" THEN "SEND_SETTINGS"
                                                   ELSE "READ_LOCAL_CHECKPOINT",
                      ![t].checked = FALSE, ![t].err = "OK"]
    /\ r' = [r EXCEPT ![t].pc = IF r[t].err THEN "SEND_LOCAL_CHECKPOINT"
                                            ELSE "READ_NEXT_CMD",
                      ![t].err = FALSE]
    /\ UNCHANGED <<parentVars, syncVars, faults>>

(* The connection that connect() replaces, or a thread leaves, is closed.  *)
CloseOld(t) ==
    /\ s[t].pc \in {"CONNECT", "DONE"}
    /\ conn[t] = "open"
    /\ Drop(t)
    /\ UNCHANGED <<parentVars, syncVars, s, r, faults>>

ConnectAborted(t) ==
    /\ In(t, "CONNECT")
    /\ CurAbortCode # "OK"
    /\ IF CurAbortCode = "VERSION_MISMATCH"
       THEN Fails(t, "PROCESS_VERSION_MISMATCH", "ABORT")
       ELSE Ends(t)
    /\ UNCHANGED <<parentVars, syncVars, r, wireVars, faults>>

ConnectRefused(t) ==
    /\ In(t, "CONNECT")
    /\ \/ r[t].pc = "END" /\ UNCHANGED faults
       \/ faults < MaxFaults /\ faults' = faults + 1
    /\ Ends(t)
    /\ UNCHANGED <<parentVars, syncVars, r, wireVars>>

ReadLocalCheckPoint(t) ==
    /\ In(t, "READ_LOCAL_CHECKPOINT")
    /\ ReadsDown(t)
    /\ Goto(t, "SEND_SETTINGS")
    /\ UNCHANGED <<parentVars, syncVars, r, faults>>

(* The receiver sends no checkpoint: the read times out.                   *)
ReadCheckPointTimesOut(t) ==
    /\ In(t, "READ_LOCAL_CHECKPOINT")
    /\ conn[t] = "open" /\ down[t] = <<>> /\ r[t].pc = "READ_NEXT_CMD"
    /\ Fails(t, "CONNECT", "SOCKET_READ_ERROR")
    /\ Drop(t)
    /\ UNCHANGED <<parentVars, syncVars, r, faults>>

SendSettings(t) ==
    /\ In(t, "SEND_SETTINGS")
    /\ Writes(up, t, [version |-> s[t].version, checksum |-> s[t].footer])
    /\ Goto(t, "SEND_BLOCKS")
    /\ UNCHANGED <<parentVars, syncVars, r, conn, down, faults>>

(* A broken connection, while it waits for the receiver or writes to it;   *)
(* CHECK_FOR_ABORT finds nothing.                                          *)
ConnectionLost(t) ==
    /\ \/ In(t, "READ_LOCAL_CHECKPOINT")
       \/ In(t, "SEND_SETTINGS")
       \/ In(t, "SEND_BLOCKS")
    /\ conn[t] = "broken" /\ down[t] = <<>>
    /\ Fails(t, "CONNECT", "SOCKET_ERROR")
    /\ UNCHANGED <<parentVars, syncVars, r, wireVars, faults>>

ReadAbortCmd(t) ==
    /\ In(t, "SEND_BLOCKS")
    /\ down[t] # <<>>
    /\ Goto(t, "PROCESS_ABORT_CMD")
    /\ UNCHANGED <<parentVars, syncVars, r, wireVars, faults>>

(* All is sent, and both sides said DONE.  Some threads sent nothing.      *)
ProcessDoneCmd(t) ==
    /\ In(t, "SEND_BLOCKS")
    /\ r[t].pc = "RECEIVING"
    /\ conn[t] = "open"
    /\ \E sent \in BOOLEAN :
          s' = [s EXCEPT ![t].pc = "END", ![t].acked = sent, ![t].outcome = "done"]
    /\ r' = [r EXCEPT ![t].pc = "END"]
    /\ UNCHANGED <<parentVars, syncVars, wireVars, faults>>

(* processAbortCmd: the transfer is aborted first, then the version noted. *)
ProcessAbortCmd(t) ==
    /\ In(t, "PROCESS_ABORT_CMD")
    /\ LET msg == Head(down[t])
       IN  /\ ReadsDown(t)
           /\ Abort(msg.error)
           /\ IF msg.error = "VERSION_MISMATCH"
              THEN s' = [s EXCEPT ![t].pc = "NOTE_VERSION", ![t].err = "ABORT",
                                  ![t].offered = msg.version]
              ELSE Ends(t)
    /\ UNCHANGED <<session, version, appAbort, status, syncVars, r, faults>>

NoteVersion(t) ==
    /\ s[t].pc = "NOTE_VERSION"
    /\ IF NegotiateProtocol(s[t].offered, s[t].version) = s[t].offered
       THEN s' = [s EXCEPT ![t].pc = "PROCESS_VERSION_MISMATCH",
                           ![t].checked = FALSE, ![t].negotiated = s[t].offered]
       ELSE Ends(t)
    /\ UNCHANGED <<parentVars, syncVars, r, wireVars, faults>>

-----------------------------------------------------------------------------
(* processVersionMismatch *)

MeetAtBarrier_Skipped(t) ==
    /\ In(t, "PROCESS_VERSION_MISMATCH")
    /\ IF status = "V_MISMATCH_RESOLVED"
       THEN Ends(t)
       ELSE s' = [s EXCEPT ![t].pc = "FUNNEL"]
    /\ UNCHANGED <<parentVars, syncVars, r, wireVars, faults>>

MeetAtBarrier(t) ==
    /\ In(t, "PROCESS_VERSION_MISMATCH")
    /\ IF status = "V_MISMATCH_RESOLVED"
       THEN Ends(t) /\ UNCHANGED barrier
       ELSE /\ s' = [s EXCEPT ![t].pc = "BARRIER"]
            /\ barrier' = BarrierExecute(barrier)
    /\ UNCHANGED <<parentVars, funnel, r, wireVars, faults>>

LeaveBarrier(t) ==
    /\ s[t].pc = "BARRIER"
    /\ barrier.complete
    /\ s' = [s EXCEPT ![t].pc = "FUNNEL"]
    /\ UNCHANGED <<parentVars, syncVars, r, wireVars, faults>>

EnterFunnel(t) ==
    /\ s[t].pc = "FUNNEL"
    /\ funnel = "START"
    /\ funnel' = FunnelGetStatus(funnel)
    /\ status' = "V_MISMATCH_FAILED"
    /\ s' = [s EXCEPT ![t].pc = "NEGOTIATE"]
    /\ UNCHANGED <<session, version, abortCode, appAbort, barrier, r, wireVars, faults>>

(* A thread that finds the funnel in progress waits until notifySuccess. *)
LeaveFunnel(t) ==
    /\ s[t].pc = "FUNNEL"
    /\ funnel = "END"
    /\ IF status = "V_MISMATCH_RESOLVED"
       THEN s' = [s EXCEPT ![t].pc = "CONNECT", ![t].checked = FALSE,
                           ![t].version = version]
       ELSE Ends(t)
    /\ UNCHANGED <<parentVars, syncVars, r, wireVars, faults>>

Negotiated == {s[t].negotiated : t \in Threads} \ {-1}

(* handleVersionMismatch refuses if a receiver acknowledged something. *)
Negotiate(t) ==
    /\ s[t].pc = "NEGOTIATE"
    /\ IF (\E u \in Threads : s[u].acked) \/ Cardinality(Negotiated) # 1
       THEN /\ Ends(t)
            /\ UNCHANGED <<version, abortCode, status>>
       ELSE LET v == CHOOSE n \in Negotiated : TRUE
            IN  /\ version' = v
                /\ s' = [s EXCEPT ![t].pc = "CONNECT", ![t].checked = FALSE,
                                  ![t].version = v, ![t].footer = FooterType(v)]
                /\ status' = "V_MISMATCH_RESOLVED"
                /\ ClearAbort
    /\ funnel' = "END"
    /\ UNCHANGED <<session, appAbort, barrier, r, wireVars, faults>>

(* The end of start(): deRegisterThread *)
EndThread(t) ==
    /\ s[t].pc = "END"
    /\ s' = [s EXCEPT ![t].pc = "DONE"]
    /\ barrier' = BarrierDeRegister(barrier)
    /\ UNCHANGED <<parentVars, funnel, r, wireVars, faults>>

SenderStep(t) ==
    \/ LoopTop(t) \/ Connect(t) \/ ConnectAborted(t) \/ ConnectRefused(t)
    \/ CloseOld(t) \/ ReadLocalCheckPoint(t) \/ ReadCheckPointTimesOut(t)
    \/ SendSettings(t) \/ ConnectionLost(t) \/ ReadAbortCmd(t)
    \/ ProcessDoneCmd(t) \/ ProcessAbortCmd(t) \/ NoteVersion(t)
    \/ MeetAtBarrier(t) \/ LeaveBarrier(t) \/ EnterFunnel(t) \/ LeaveFunnel(t)
    \/ Negotiate(t) \/ EndThread(t)

-----------------------------------------------------------------------------
(* Receiver threads *)

ReceiverLosesConnection(t) ==
    /\ r[t].pc \in {"SEND_LOCAL_CHECKPOINT", "READ_NEXT_CMD", "RECEIVING"}
    /\ conn[t] = "broken"
    /\ r' = [r EXCEPT ![t].pc = "ACCEPT", ![t].err = TRUE]
    /\ UNCHANGED <<parentVars, syncVars, s, wireVars, faults>>

SendLocalCheckpoint(t) ==
    /\ r[t].pc = "SEND_LOCAL_CHECKPOINT"
    /\ Writes(down, t, [cmd |-> "LOCAL_CHECKPOINT"])
    /\ r' = [r EXCEPT ![t].pc = "READ_NEXT_CMD"]
    /\ UNCHANGED <<parentVars, syncVars, s, conn, up, faults>>

(* processSettingsCmd.  SEND_ABORT_CMD writes and closes: the sender may   *)
(* or may not get to read the command.                                     *)
SendAbortCmd(t, error, v) ==
    /\ conn' = [conn EXCEPT ![t] = "broken"]
    /\ up' = [up EXCEPT ![t] = <<>>]
    /\ \/ down' = [down EXCEPT ![t] =
                      <<[cmd |-> "ABORT", error |-> error, version |-> v]>>]
          /\ UNCHANGED faults
       \/ /\ faults < MaxFaults
          /\ faults' = faults + 1
          /\ down' = [down EXCEPT ![t] = <<>>]

ProcessSettingsCmd(t) ==
    /\ r[t].pc = "READ_NEXT_CMD"
    /\ up[t] # <<>>
    /\ LET settings == Head(up[t])
           v == NegotiateProtocol(settings.version, r[t].version)
       IN  CASE settings.version # r[t].version /\ v = 0 ->
                  /\ r' = [r EXCEPT ![t].pc = "END"]
                  /\ SendAbortCmd(t, "VERSION_INCOMPATIBLE", r[t].version)
             [] settings.version # r[t].version /\ v \notin {0, settings.version} ->
                  /\ r' = [r EXCEPT ![t].pc = "ACCEPT", ![t].err = TRUE,
                                    ![t].version = v]
                  /\ SendAbortCmd(t, "VERSION_MISMATCH", v)
             [] OTHER ->
                  /\ r' = [r EXCEPT ![t].pc = "RECEIVING", ![t].version = v,
                                    ![t].footer = settings.checksum
                                                  /\ v >= ChecksumVersion]
                  /\ ReadsUp(t)
                  /\ UNCHANGED faults
    /\ UNCHANGED <<parentVars, syncVars, s>>

ReceiverStep(t) ==
    ReceiverLosesConnection(t) \/ SendLocalCheckpoint(t) \/ ProcessSettingsCmd(t)

(* The next sender of a long-running receiver, whose threads were reset.   *)
NextSender ==
    /\ session < Len(SenderVersions)
    /\ \A t \in Threads : s[t].pc = "DONE" /\ r[t].pc \in {"ACCEPT", "END"}
    /\ session' = session + 1
    /\ version' = SenderVersions[session + 1]
    /\ abortCode' = "OK"
    /\ appAbort' = FALSE
    /\ status' = "V_MISMATCH_WAIT"
    /\ barrier' = NewBarrier(Cardinality(Threads))
    /\ funnel' = "START"
    /\ s' = [t \in Threads |-> NewSenderThread(SenderVersions[session + 1])]
    /\ r' = [t \in Threads |-> NewReceiverThread(r[t].version)]
    /\ conn' = [t \in Threads |-> "none"]
    /\ up' = [t \in Threads |-> <<>>]
    /\ down' = [t \in Threads |-> <<>>]
    /\ faults' = 0

Next ==
    \/ \E t \in Threads : SenderStep(t) \/ ReceiverStep(t) \/ Break(t)
    \/ ApplicationAborts
    \/ NextSender

Fairness ==
    /\ \A t \in Threads : WF_vars(SenderStep(t)) /\ WF_vars(ReceiverStep(t))
    /\ WF_vars(NextSender)

Spec == Init /\ [][Next]_vars

FairSpec == Spec /\ Fairness

-----------------------------------------------------------------------------
(* Properties *)

(* An earlier sender with a version that is supported, and lower: the      *)
(* receiver's threads keep it (ReceiverThread::processSettingsCmd).        *)
LoweredBefore ==
    \E n \in 1..(session - 1) : SenderVersions[n] \in MinVersion..(ReceiverVersion - 1)

(***************************************************************************)
(* The two ends of a connection over which blocks go use one protocol      *)
(* version and agree on whether a block has a footer, in the session of    *)
(* every sender; the version is one that is supported, and the lower one   *)
(* of the two unless the receiver was lowered before.                      *)
(***************************************************************************)
VersionsAgree ==
    \A t \in Threads :
        (s[t].pc = "SEND_BLOCKS" /\ r[t].pc = "RECEIVING" /\ conn[t] = "open")
            => /\ s[t].version = r[t].version
               /\ s[t].footer = r[t].footer
               /\ s[t].version >= MinVersion
               /\ ~LoweredBefore =>
                    s[t].version = Smaller(SenderVersions[session], ReceiverVersion)

(***************************************************************************)
(* No thread changes the version under another thread that is sending:     *)
(* while one negotiates, every other one waits or has ended.               *)
(***************************************************************************)
AllWaitForNegotiation ==
    (\E t \in Threads : s[t].pc = "NEGOTIATE") =>
        \A u \in Threads :
            s[u].pc \in {"BARRIER", "FUNNEL", "NEGOTIATE", "END", "DONE"}

(***************************************************************************)
(* However the abort, the barrier and the funnel interleave with broken    *)
(* connections and an abort by the application, every sender thread ends.  *)
(***************************************************************************)
AllEnd == <>(session = Len(SenderVersions) /\ \A t \in Threads : s[t].pc = "DONE")
=============================================================================

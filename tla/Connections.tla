---------------------------- MODULE Connections ----------------------------
(***************************************************************************)
(* The connections between the sender thread and the receiver thread of    *)
(* each port, as src/util/WdtSocket.cpp, ClientSocket.cpp and              *)
(* ServerSocket.cpp present them to the threads: two byte streams cut into *)
(* commands, and an accept queue in which a connection waits until the     *)
(* receiver thread calls accept.                                           *)
(*                                                                         *)
(* Connections of a port are numbered in the order in which the sender     *)
(* makes them; the receiver accepts them in that order.  A side reads what *)
(* the other wrote before it closed and then the end of the stream.  When  *)
(* the path between the two hosts fails both streams lose a suffix, and a  *)
(* later write may still report success (the kernel buffered it) or fail.  *)
(***************************************************************************)
EXTENDS ThreadTransferHistory

CONSTANTS
    MaxConns,     \* bound: connections a sender thread makes
    MaxBreaks,    \* bound: failures of the network or of the data on it
    FooterType    \* what lets the receiver trust a block: see below

(***************************************************************************)
(* NO_FOOTER: bytes are valid as they arrive.  CHECKSUM_FOOTER: a block is *)
(* valid once its footer arrived.  TAG: the connection is encrypted with   *)
(* an authentication tag every so many bytes and at the end of the stream; *)
(* a block is valid once a tag that follows it arrived.                    *)
(***************************************************************************)
ASSUME ConnectionsAssumption ==
    /\ MaxConns \in Nat \ {0}
    /\ MaxBreaks \in Nat
    /\ FooterType \in {"NO_FOOTER", "CHECKSUM_FOOTER", "TAG"}

VARIABLES
    toR,       \* [port][connection]: commands on their way to the receiver
    toS,       \* [port][connection]: commands on their way to the sender
    up,        \* [port][connection]: the path of the connection works
    sConn,     \* [port]: number of the sender's newest connection, 0 before the first
    sOpen,     \* [port]: the sender has that connection open
    rConn,     \* [port]: number of the connection the receiver accepted last
    rOpen,     \* [port]: the receiver has that connection open
    listening, \* [port]: the server socket of the receiver thread is open
    breaks     \* failures so far

netVars == <<toR, toS, up, sConn, sOpen, rConn, rOpen, listening, breaks>>

Conns == 1..MaxConns

NoSource == [none |-> TRUE]

(***************************************************************************)
(* A FILE command carries a block; part says how much of it arrived: all   *)
(* of it, its header and got bytes, or not even the whole header.          *)
(***************************************************************************)
Cmds == {"SETTINGS", "SIZE", "FILE", "DONE", "WAIT", "ERR", "ABORT",
         "LOCAL_CHECKPOINT", "EOS"}

Parts == {"WHOLE", "DATA", "HEADER"}

Message ==
    {m \in [cmd : Cmds, src : Source \cup {NoSource}, part : Parts, got : 0..BlockSize,
            cks : Seq(Checkpoint)] :
        /\ m.cmd = "FILE" => m.src \in Source /\ m.got <= SizeOf(m.src)
        /\ m.cmd = "LOCAL_CHECKPOINT" => m.cks # <<>>}

Cmd(c) == [cmd |-> c, src |-> NoSource, part |-> "WHOLE", got |-> 0, cks |-> <<>>]

CheckpointCmd(c, cks) == [Cmd(c) EXCEPT !.cks = cks]

FileCmd(s) ==
    [cmd |-> "FILE", src |-> s, part |-> "WHOLE", got |-> SizeOf(s), cks |-> <<>>]

(***************************************************************************)
(* The ways in which the last command of a stream can be cut short.  A     *)
(* partial block only has a byte count when the receiver uses it.          *)
(***************************************************************************)
CutBytes(m) ==
    IF FooterType = "NO_FOOTER" /\ m.got > 0 THEN 0..(m.got - 1) ELSE {0}

CutCommand(m) ==
    IF m.part # "WHOLE" THEN {}
    ELSE IF m.cmd = "FILE"
         THEN {[m EXCEPT !.part = "HEADER", !.got = 0]}
                \cup {[m EXCEPT !.part = "DATA", !.got = n] : n \in CutBytes(m)}
    ELSE IF m.cmd \in {"ERR", "ABORT"} THEN {[m EXCEPT !.part = "HEADER", !.cks = <<>>]}
    ELSE {}

Cuts(s) ==
    {SubSeq(s, 1, k) : k \in 0..Len(s)}
      \cup UNION {{Append(SubSeq(s, 1, k - 1), m) : m \in CutCommand(s[k])} :
                     k \in 1..Len(s)}

NetTypeOK ==
    /\ toR \in [Ports -> [Conns -> Seq(Message)]]
    /\ toS \in [Ports -> [Conns -> Seq(Message)]]
    /\ up \in [Ports -> [Conns -> BOOLEAN]]
    /\ sConn \in [Ports -> 0..MaxConns]
    /\ rConn \in [Ports -> 0..MaxConns]
    /\ sOpen \in [Ports -> BOOLEAN]
    /\ rOpen \in [Ports -> BOOLEAN]
    /\ listening \in [Ports -> BOOLEAN]
    /\ breaks \in 0..MaxBreaks

NetInit ==
    /\ toR = [p \in Ports |-> [i \in Conns |-> <<>>]]
    /\ toS = [p \in Ports |-> [i \in Conns |-> <<>>]]
    /\ up = [p \in Ports |-> [i \in Conns |-> TRUE]]
    /\ sConn = [p \in Ports |-> 0]
    /\ sOpen = [p \in Ports |-> FALSE]
    /\ rConn = [p \in Ports |-> 0]
    /\ rOpen = [p \in Ports |-> FALSE]
    /\ listening = [p \in Ports |-> TRUE]
    /\ breaks = 0

-----------------------------------------------------------------------------
(* The sender's end. *)

ReceiverClosed(p, i) == i < rConn[p] \/ (i = rConn[p] /\ ~rOpen[p]) \/ ~listening[p]

ReachesReceiver(p) == up[p][sConn[p]] /\ ~ReceiverClosed(p, sConn[p])

(* ClientSocket::connect succeeds while the server socket listens.  An attempt
   before it may have timed out and still wait in the accept queue. *)
Connect(p) ==
    /\ listening[p]
    /\ \E timedOut \in 0..1 :
          /\ sConn[p] + timedOut < MaxConns
          /\ breaks + timedOut <= MaxBreaks
          /\ sConn' = [sConn EXCEPT ![p] = @ + timedOut + 1]
          /\ breaks' = breaks + timedOut
    /\ sOpen' = [sOpen EXCEPT ![p] = TRUE]

(* write of the whole command succeeds: it reaches the receiver, or the
   kernel buffered it for a connection that is already lost *)
SenderWriteOk(p, m) ==
    toR' = IF ReachesReceiver(p) THEN [toR EXCEPT ![p][sConn[p]] = Append(@, m)] ELSE toR

SenderWriteFails(p) ==
    /\ ~ReachesReceiver(p)
    /\ toR' = toR

SenderReads(p, c) ==
    /\ toS[p][sConn[p]] # <<>>
    /\ Head(toS[p][sConn[p]]).cmd = c

SenderConsumes(p) == toS' = [toS EXCEPT ![p][sConn[p]] = Tail(@)]

SenderReadFails(p) ==
    /\ toS[p][sConn[p]] = <<>>
    /\ ~ReachesReceiver(p)

-----------------------------------------------------------------------------
(* The receiver's end. *)

ReachesSender(p) == up[p][rConn[p]] /\ sConn[p] = rConn[p] /\ sOpen[p]

(* ServerSocket::acceptNextConnection takes the oldest connection waiting *)
Accept(p) ==
    /\ rConn[p] < sConn[p]
    /\ rConn' = [rConn EXCEPT ![p] = @ + 1]
    /\ rOpen' = [rOpen EXCEPT ![p] = TRUE]

ReceiverWriteOk(p, m) ==
    toS' = IF ReachesSender(p) THEN [toS EXCEPT ![p][rConn[p]] = Append(@, m)] ELSE toS

ReceiverWriteFails(p) ==
    /\ ~ReachesSender(p)
    /\ toS' = toS

ReceiverReads(p, c) ==
    /\ toR[p][rConn[p]] # <<>>
    /\ Head(toR[p][rConn[p]]).cmd = c

ReceiverConsumes(p) == toR' = [toR EXCEPT ![p][rConn[p]] = Tail(@)]

ReceiverReadFails(p) ==
    /\ toR[p][rConn[p]] = <<>>
    /\ ~ReachesSender(p)

(* what was not read is lost *)
ReceiverCloses(p) ==
    /\ rOpen' = [rOpen EXCEPT ![p] = FALSE]
    /\ toR' = [toR EXCEPT ![p][rConn[p]] = <<>>]

-----------------------------------------------------------------------------
(* The path of a connection in use fails: any suffix of either stream is lost. *)
Break(p, i) ==
    /\ breaks < MaxBreaks
    /\ up[p][i]
    /\ \/ i = sConn[p] /\ sOpen[p]
       \/ i = rConn[p] /\ rOpen[p]
    /\ \E r \in Cuts(toR[p][i]), s \in Cuts(toS[p][i]) :
          /\ toR' = [toR EXCEPT ![p][i] = r]
          /\ toS' = [toS EXCEPT ![p][i] = s]
    /\ up' = [up EXCEPT ![p][i] = FALSE]
    /\ breaks' = breaks + 1
    /\ UNCHANGED <<sConn, sOpen, rConn, rOpen, listening>>
=============================================================================

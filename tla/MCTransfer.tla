----------------------------- MODULE MCTransfer -----------------------------
(***************************************************************************)
(* Transfer for TLC.                                                       *)
(***************************************************************************)
EXTENDS Transfer, TLC

(* The ports are interchangeable: Init treats all alike, and no step chooses
   one by anything but its state. *)
PortSymmetry == Permutations(Ports)

(***************************************************************************)
(* A reachable state, if no connection fails early: each                   *)
(* receiver thread has accepted the connection of its sender thread and    *)
(* read the settings, and no block has been taken from the queue yet.      *)
(* Starting there leaves room for a third port.                            *)
(***************************************************************************)
ConnectedInit ==
    /\ toR = [p \in Ports |-> [i \in Conns |-> <<>>]]
    /\ toS = [p \in Ports |-> [i \in Conns |-> <<>>]]
    /\ up = [p \in Ports |-> [i \in Conns |-> TRUE]]
    /\ sConn = [p \in Ports |-> 1]
    /\ sOpen = [p \in Ports |-> TRUE]
    /\ rConn = [p \in Ports |-> 1]
    /\ rOpen = [p \in Ports |-> TRUE]
    /\ listening = [p \in Ports |-> TRUE]
    /\ breaks = 0
    /\ sState = [p \in Ports |-> "SEND_BLOCKS"]
    /\ sErr = [p \in Ports |-> "OK"]
    /\ noProgress = [p \in Ports |-> 0]
    /\ sizeSent = [p \in Ports |-> FALSE]
    /\ cur = [p \in Ports |-> NoSource]
    /\ sent = [p \in Ports |-> FALSE]
    /\ hist = [p \in Ports |-> NewHistory]
    /\ toApply = [p \in Ports |-> <<>>]
    /\ queue = [blk : Blocks, off : {0}]
    /\ dequeued = 0
    /\ aborted = FALSE
    /\ rejected = {}
    /\ finished = FALSE
    /\ rState = [p \in Ports |-> "READ_NEXT_CMD"]
    /\ rErr = [p \in Ports |-> FALSE]
    /\ rCheckpoint = [p \in Ports |-> NewCheckpoint(p)]
    /\ rVerify = [p \in Ports |-> <<>>]
    /\ ckIndex = [p \in Ports |-> 0]
    /\ pendingIndex = [p \in Ports |-> 0]
    /\ newCks = [p \in Ports |-> <<>>]
    /\ settings = [p \in Ports |-> TRUE]
    /\ control = [p \in Ports |-> "RUNNING"]
    /\ checkpoints = <<>>
    /\ started = TRUE
    /\ diskErrors = 0
    /\ valid = {}

ConnectedSpec == ConnectedInit /\ [][Next]_vars
=============================================================================

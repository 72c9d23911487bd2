---------------------------- MODULE ShareSession ----------------------------
(***************************************************************************)
(* The handshakes of the sample application that lead to a WDT transfer,   *)
(* and how they are stopped.  A downloader (ShareDownload) connects to the *)
(* phone that shares (ShareServer), which sends to the receiver the        *)
(* downloader started; a phone that pushes (Push) asks another one         *)
(* (PushServer, PushRequest), which starts a receiver.  run() of either    *)
(* client, the handler of each connection and close() of either side run   *)
(* on threads of their own.                                                *)
(***************************************************************************)
EXTENDS Naturals, FiniteSets

CONSTANTS
    Downloads, Pushes,  \* the clients, by kind
    Nobody,
    Stopped             \* the clients, and perhaps Share, that are stopped

VARIABLES
    client,         \* where run() of each client is
    handler,        \* where the handler of its connection is
    ends,           \* the open ends of its connection
    said,           \* the lines sent over it
    field,          \* the client's socket and receiver or sender fields
    closed,         \* who has set closed
    closing,        \* where close() is, of each client and of the share
    sender,         \* ShareServer.sender
    wdtLock,        \* who holds wdtLock
    connections,    \* ShareServer.connections
    listening,      \* the share's server socket is open
    aborted         \* the transfers abort() was called on: <<who, side>>

vars == <<client, handler, ends, said, field, closed, closing, sender, wdtLock, connections,
          listening, aborted>>

Clients == Downloads \cup Pushes
Share == "share"

Init ==
    /\ client = [c \in Clients |-> "socket"] /\ handler = [c \in Clients |-> "none"]
    /\ ends = [c \in Clients |-> {}] /\ said = [c \in Clients |-> {}]
    /\ field = [c \in Clients |-> {}]
    /\ closed = {} /\ closing = [x \in Clients \cup {Share} |-> "no"]
    /\ sender = Nobody /\ wdtLock = Nobody /\ connections = {} /\ listening = TRUE
    /\ aborted = {}

ClientGoto(c, where) == client' = [client EXCEPT ![c] = where]
HandlerGoto(c, where) == handler' = [handler EXCEPT ![c] = where]
Say(c, line) == said' = [said EXCEPT ![c] = @ \cup {line}]
CloseEnds(c, which) == ends' = [ends EXCEPT ![c] = @ \ which]

clientOnly == <<handler, closed, closing, sender, wdtLock, connections, listening>>
handlerOnly == <<client, field, closed, closing>>

-----------------------------------------------------------------------------
(* ShareDownload.run and Push.run *)

SetSocket(c) ==
    /\ client[c] = "socket"
    /\ field' = [field EXCEPT ![c] = @ \cup {"socket"}]
    /\ ends' = [ends EXCEPT ![c] = {"client"}]
    /\ ClientGoto(c, "check")
    /\ UNCHANGED <<clientOnly, said, aborted>>

(* A failure: Socket().use closes the socket, run() throws. *)
ClientFails(c) ==
    /\ \/ client[c] = "check" /\ c \in closed
       \/ client[c] \in {"connect", "hello", "answer", "tell"}
    /\ CloseEnds(c, {"client"})
    /\ ClientGoto(c, "done")
    /\ UNCHANGED <<clientOnly, said, field, aborted>>

CheckClosed(c) ==
    /\ client[c] = "check" /\ c \notin closed
    /\ ClientGoto(c, "connect")
    /\ UNCHANGED <<clientOnly, ends, said, field, aborted>>

Connect(c) ==
    /\ client[c] = "connect" /\ "client" \in ends[c]
    /\ c \in Downloads => listening
    /\ ends' = [ends EXCEPT ![c] = {"client", "server"}]
    /\ ClientGoto(c, "hello")
    /\ UNCHANGED <<clientOnly, said, field, aborted>>

(* HELLO or PUSH *)
SendHello(c) ==
    /\ client[c] = "hello" /\ "client" \in ends[c]
    /\ Say(c, "HELLO")
    /\ ClientGoto(c, "answer")
    /\ UNCHANGED <<clientOnly, ends, field, aborted>>

(* OFFER or ACCEPT.  A push is done with the connection. *)
ReadAnswer(c) ==
    /\ client[c] = "answer" /\ "client" \in ends[c] /\ "ANSWER" \in said[c]
    /\ ClientGoto(c, "assign")
    /\ IF c \in Pushes THEN CloseEnds(c, {"client"}) ELSE UNCHANGED ends
    /\ UNCHANGED <<clientOnly, said, field, aborted>>

(* receiver = r, sender = s *)
Assign(c) ==
    /\ client[c] = "assign"
    /\ field' = [field EXCEPT ![c] = @ \cup {"transfer"}]
    /\ ClientGoto(c, "recheck")
    /\ UNCHANGED <<clientOnly, ends, said, aborted>>

(* if (closed) r.abort() *)
Recheck(c) ==
    /\ client[c] = "recheck"
    /\ aborted' = IF c \in closed THEN aborted \cup {<<c, "client">>} ELSE aborted
    /\ ClientGoto(c, IF c \in Pushes THEN "transfer" ELSE "tell")
    /\ UNCHANGED <<clientOnly, ends, said, field>>

(* The receiver has started; its URL is sent. *)
SendReceiver(c) ==
    /\ client[c] = "tell" /\ "client" \in ends[c]
    /\ Say(c, "RECEIVER")
    /\ ClientGoto(c, "transfer")
    /\ UNCHANGED <<clientOnly, ends, field, aborted>>

(* transfer() or awaitFinish() returns: the transfer is over, was aborted  *)
(* or nobody came.                                                         *)
ClientTransferEnds(c) ==
    /\ client[c] = "transfer"
    /\ CloseEnds(c, {"client"})
    /\ ClientGoto(c, "done")
    /\ UNCHANGED <<clientOnly, said, field, aborted>>

ClientStep(c) ==
    SetSocket(c) \/ ClientFails(c) \/ CheckClosed(c) \/ Connect(c) \/ SendHello(c)
        \/ ReadAnswer(c) \/ Assign(c) \/ Recheck(c) \/ SendReceiver(c) \/ ClientTransferEnds(c)

-----------------------------------------------------------------------------
(* close() of a client: closed = true, the socket, then the transfer *)

CloseClient_FlagLast(c) ==
    \/ /\ closing[c] = "no" /\ c \in Stopped /\ client[c] # "done"
       /\ closing' = [closing EXCEPT ![c] = "socket"]
       /\ UNCHANGED <<client, handler, ends, said, field, closed, sender, wdtLock, connections,
                      listening, aborted>>
    \/ /\ closing[c] = "socket"
       /\ IF "socket" \in field[c] THEN CloseEnds(c, {"client"}) ELSE UNCHANGED ends
       /\ closing' = [closing EXCEPT ![c] = "abort"]
       /\ UNCHANGED <<client, handler, said, field, closed, sender, wdtLock, connections,
                      listening, aborted>>
    \/ /\ closing[c] = "abort"
       /\ aborted' = IF "transfer" \in field[c] THEN aborted \cup {<<c, "client">>} ELSE aborted
       /\ closing' = [closing EXCEPT ![c] = "flag"]
       /\ UNCHANGED <<client, handler, ends, said, field, closed, sender, wdtLock, connections,
                      listening>>
    \/ /\ closing[c] = "flag"
       /\ closed' = closed \cup {c}
       /\ closing' = [closing EXCEPT ![c] = "done"]
       /\ UNCHANGED <<client, handler, ends, said, field, sender, wdtLock, connections,
                      listening, aborted>>

CloseClient(c) ==
    \/ /\ closing[c] = "no" /\ c \in Stopped /\ client[c] # "done"
       /\ closed' = closed \cup {c}
       /\ closing' = [closing EXCEPT ![c] = "socket"]
       /\ UNCHANGED <<client, handler, ends, said, field, sender, wdtLock, connections,
                      listening, aborted>>
    \/ /\ closing[c] = "socket"
       /\ IF "socket" \in field[c] THEN CloseEnds(c, {"client"}) ELSE UNCHANGED ends
       /\ closing' = [closing EXCEPT ![c] = "abort"]
       /\ UNCHANGED <<client, handler, said, field, closed, sender, wdtLock, connections,
                      listening, aborted>>
    \/ /\ closing[c] = "abort"
       /\ aborted' = IF "transfer" \in field[c] THEN aborted \cup {<<c, "client">>} ELSE aborted
       /\ closing' = [closing EXCEPT ![c] = "done"]
       /\ UNCHANGED <<client, handler, ends, said, field, closed, sender, wdtLock, connections,
                      listening>>

-----------------------------------------------------------------------------
(* ShareServer.serve and handle; PushServer.loop and PushRequest.receive *)

Connected(c) == "server" \in ends[c]

(* accept() returned.  Pushes are handled one at a time. *)
Accept(c) ==
    /\ handler[c] = "none" /\ Connected(c)
    /\ \/ c \in Downloads /\ listening
       \/ c \in Pushes /\ \A d \in Pushes : handler[d] \in {"none", "done"}
    /\ HandlerGoto(c, IF c \in Downloads THEN "register" ELSE "read")
    /\ UNCHANGED <<handlerOnly, ends, said, sender, wdtLock, connections, listening, aborted>>

(* connections += socket *)
Register(c) ==
    /\ handler[c] = "register"
    /\ connections' = connections \cup {c}
    /\ HandlerGoto(c, "read")
    /\ UNCHANGED <<handlerOnly, ends, said, sender, wdtLock, listening, aborted>>

(* A handler ends, by an exception or not: the socket is closed. *)
HandlerEnds(c) ==
    /\ HandlerGoto(c, "done")
    /\ CloseEnds(c, {"server"})
    /\ connections' = connections \ {c}

HandlerFails_ReadsAgain(c) ==
    /\ handler[c] = "offer"
    /\ HandlerEnds(c)
    /\ UNCHANGED <<handlerOnly, said, sender, wdtLock, listening, aborted>>

HandlerFails(c) ==
    /\ handler[c] \in {"read", "offer", "readReceiver"}
    /\ HandlerEnds(c)
    /\ UNCHANGED <<handlerOnly, said, sender, wdtLock, listening, aborted>>

ReadHello(c) ==
    /\ handler[c] = "read" /\ Connected(c) /\ "HELLO" \in said[c]
    /\ HandlerGoto(c, "offer")
    /\ UNCHANGED <<handlerOnly, ends, said, sender, wdtLock, connections, listening, aborted>>

(* OFFER, or ACCEPT once a receiver was started. *)
SendOffer(c) ==
    /\ handler[c] = "offer" /\ Connected(c)
    /\ Say(c, "ANSWER")
    /\ HandlerGoto(c, IF c \in Downloads THEN "readReceiver" ELSE "transfer")
    /\ UNCHANGED <<handlerOnly, ends, sender, wdtLock, connections, listening, aborted>>

ReadReceiver(c) ==
    /\ handler[c] = "readReceiver" /\ Connected(c) /\ "RECEIVER" \in said[c]
    /\ HandlerGoto(c, "lock")
    /\ UNCHANGED <<handlerOnly, ends, said, sender, wdtLock, connections, listening, aborted>>

(* synchronized(wdtLock) { if (closed) return *)
LockWdt(c) ==
    /\ handler[c] = "lock" /\ wdtLock = Nobody
    /\ \/ Share \in closed /\ HandlerEnds(c) /\ UNCHANGED wdtLock
       \/ Share \notin closed /\ wdtLock' = c /\ HandlerGoto(c, "assign")
          /\ UNCHANGED <<ends, connections>>
    /\ UNCHANGED <<handlerOnly, said, sender, listening, aborted>>

AssignSender(c) ==
    /\ handler[c] = "assign"
    /\ sender' = c
    /\ HandlerGoto(c, "transfer")
    /\ UNCHANGED <<handlerOnly, ends, said, wdtLock, connections, listening, aborted>>

(* transfer() returned: sender = null, the sender and the lock are         *)
(* released; it threw: sender keeps the closed WdtSender.                  *)
HandlerTransferEnds(c) ==
    /\ handler[c] = "transfer"
    /\ HandlerEnds(c)
    /\ \/ c \in Downloads /\ sender' \in {Nobody, sender} /\ wdtLock' = Nobody
       \/ c \in Pushes /\ UNCHANGED <<sender, wdtLock>>
    /\ UNCHANGED <<handlerOnly, said, listening, aborted>>

HandlerStep(c) ==
    Accept(c) \/ Register(c) \/ HandlerFails(c) \/ ReadHello(c) \/ SendOffer(c)
        \/ ReadReceiver(c) \/ LockWdt(c) \/ AssignSender(c) \/ HandlerTransferEnds(c)

(* ShareServer.close: closed = true, the server socket, the sender, then   *)
(* the connections.                                                        *)
CloseShare ==
    /\ UNCHANGED <<client, handler, said, field, sender, wdtLock, connections>>
    /\ \/ /\ closing[Share] = "no" /\ Share \in Stopped
          /\ closed' = closed \cup {Share}
          /\ closing' = [closing EXCEPT ![Share] = "socket"]
          /\ UNCHANGED <<listening, aborted, ends>>
       \/ /\ closing[Share] = "socket"
          /\ listening' = FALSE
          /\ closing' = [closing EXCEPT ![Share] = "abort"]
          /\ UNCHANGED <<closed, aborted, ends>>
       \/ /\ closing[Share] = "abort"
          /\ aborted' = IF sender # Nobody THEN aborted \cup {<<sender, "share">>} ELSE aborted
          /\ closing' = [closing EXCEPT ![Share] = "connections"]
          /\ UNCHANGED <<closed, listening, ends>>
       \/ /\ closing[Share] = "connections"
          /\ ends' = [c \in Clients |-> IF c \in connections THEN ends[c] \ {"server"} ELSE ends[c]]
          /\ closing' = [closing EXCEPT ![Share] = "done"]
          /\ UNCHANGED <<closed, listening, aborted>>

-----------------------------------------------------------------------------
Next ==
    \/ \E c \in Clients : ClientStep(c) \/ CloseClient(c) \/ HandlerStep(c)
    \/ CloseShare

Spec == Init /\ [][Next]_vars

(* Threads run, a lock is granted to each thread that waits for it, reads  *)
(* and transfers end by their timeouts at the latest.                      *)
FairSpec ==
    /\ Spec
    /\ \A c \in Clients : WF_vars(ClientStep(c)) /\ SF_vars(HandlerStep(c))

-----------------------------------------------------------------------------
(* Stop stops: once close() of a download or of a push has returned, the   *)
(* transfer run() may have started is aborted, whatever run() was doing    *)
(* when close() was called.                                                *)
ClientStops ==
    \A c \in Clients : closing[c] = "done" /\ client[c] = "transfer" => <<c, "client">> \in aborted

(* run() returns whatever the other side does, and a handler ends, so that *)
(* the next push or download gets its turn.                                *)
RunsReturn == \A c \in Clients : <>(client[c] = "done")
HandlersEnd == \A c \in Clients : handler[c] # "none" ~> handler[c] = "done"
=============================================================================

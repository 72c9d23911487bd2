------------------------------- MODULE WdtApi -------------------------------
(***************************************************************************)
(* The functions of class Wdt that applications call: wdtSend, which makes *)
(* a sender, runs it and releases it, and wdtReceiveStart and              *)
(* wdtReceiveFinish.  Several application threads call them, possibly for  *)
(* the same destination; terminateExistingOne replaces a sender that is    *)
(* still at work.                                                          *)
(***************************************************************************)
EXTENDS ResourceController

CONSTANTS
    Requests,   \* the transfer requests: records with key (destination),
                \* id (transferId) and terminate (terminateExistingOne)
    InitFails,  \* init() of a sender or receiver may fail
    Namespace   \* the namespace of all requests

VARIABLES
    prog,       \* where each application thread is in the function it called
    idOf,       \* the transfer id of each object
    aborted     \* the objects that were aborted

vars == <<rcVars, prog, idOf, aborted>>

NoRequest == [key |-> "none", id |-> 0, terminate |-> FALSE]
NoProg == [pc |-> "idle", req |-> NoRequest, first |-> TRUE, obj |-> 0]

Init ==
    /\ InitController
    /\ prog = [p \in Clients |-> NoProg]
    /\ idOf = [o \in 1 .. MaxObjects |-> 0]
    /\ aborted = {}

Goto(p, where) == prog' = [prog EXCEPT ![p].pc = where]
Done(p) == prog' = [prog EXCEPT ![p] = NoProg]

Returned(p) == call[p].step = "returned"

(* The controller works on a call of p. *)
InController(p) ==
    /\ Inside(p)
    /\ idOf' = [o \in DOMAIN idOf |->
                  IF o \in DOMAIN objects' \ DOMAIN objects THEN prog[p].req.id ELSE idOf[o]]
    /\ UNCHANGED <<prog, aborted>>

-----------------------------------------------------------------------------
(* wdtSend *)

WdtSend(p, req) ==
    /\ prog[p].pc = "idle"
    /\ BeginCreate(p, "sender", Namespace, req.key)
    /\ prog' = [prog EXCEPT ![p] = [pc |-> "creating", req |-> req, first |-> TRUE,
                                    obj |-> 0]]
    /\ UNCHANGED <<idOf, aborted>>

(* createWdtSender goes by what createSender returned. *)
Replaces(p) ==
    /\ call[p].code = "ALREADY_EXISTS" /\ prog[p].req.terminate /\ prog[p].first
    /\ idOf[call[p].obj] # prog[p].req.id

CreateReturned(p) ==
    /\ prog[p].pc = "creating" /\ Returned(p)
    /\ \/ /\ call[p].code = "OK"
          /\ prog' = [prog EXCEPT ![p].pc = "init", ![p].obj = call[p].obj]
          /\ UNCHANGED aborted
       \/ /\ Replaces(p)
          /\ aborted' = aborted \cup {call[p].obj}
          /\ Goto(p, "terminate")
       \/ /\ call[p].code # "OK" /\ ~Replaces(p)
          /\ Done(p)
          /\ UNCHANGED aborted
    /\ CallIs(p, NoCall)
    /\ UNCHANGED <<namespaceMap, ctl, num, maxNum, objects, down, idOf>>

Terminate(p) ==
    /\ prog[p].pc = "terminate"
    /\ BeginRelease(p, "release", "sender", Namespace, prog[p].req.key)
    /\ Goto(p, "terminating")
    /\ UNCHANGED <<idOf, aborted>>

Terminated(p) ==
    /\ prog[p].pc = "terminating" /\ Returned(p)
    /\ CallIs(p, NoCall)
    /\ Goto(p, "again")
    /\ UNCHANGED <<namespaceMap, ctl, num, maxNum, objects, down, idOf, aborted>>

CreateAgain(p) ==
    /\ prog[p].pc = "again"
    /\ BeginCreate(p, "sender", Namespace, prog[p].req.key)
    /\ prog' = [prog EXCEPT ![p].pc = "creating", ![p].first = FALSE]
    /\ UNCHANGED <<idOf, aborted>>

(* A sender whose init() fails is not released. *)
SenderInit(p) ==
    /\ prog[p].pc = "init"
    /\ \/ /\ objects' = [objects EXCEPT ![prog[p].obj] = "running"]
          /\ Goto(p, "transfer")
       \/ /\ InitFails
          /\ Done(p)
          /\ UNCHANGED objects
    /\ UNCHANGED <<namespaceMap, ctl, num, maxNum, call, down, idOf, aborted>>

TransferEnds(p) ==
    /\ prog[p].pc = "transfer"
    /\ objects' = [objects EXCEPT ![prog[p].obj] = "done"]
    /\ Goto(p, "release")
    /\ UNCHANGED <<namespaceMap, ctl, num, maxNum, call, down, idOf, aborted>>

(* releaseWdtSender: by destination, whichever sender that is now. *)
ReleaseWdtSender_Skipped(p) ==
    /\ prog[p].pc = "release"
    /\ Done(p)
    /\ UNCHANGED <<rcVars, idOf, aborted>>

ReleaseWdtSender(p) ==
    /\ prog[p].pc = "release"
    /\ BeginRelease(p, "release", "sender", Namespace, prog[p].req.key)
    /\ Goto(p, "releasing")
    /\ UNCHANGED <<idOf, aborted>>

Finished(p) ==
    /\ prog[p].pc = "releasing" /\ Returned(p)
    /\ CallIs(p, NoCall)
    /\ Done(p)
    /\ UNCHANGED <<namespaceMap, ctl, num, maxNum, objects, down, idOf, aborted>>

-----------------------------------------------------------------------------
(* wdtReceiveStart and wdtReceiveFinish *)

WdtReceiveStart(p, key) ==
    /\ prog[p].pc = "idle"
    /\ BeginCreate(p, "receiver", Namespace, key)
    /\ prog' = [prog EXCEPT ![p].pc = "starting", ![p].req.key = key]
    /\ UNCHANGED <<idOf, aborted>>

ReceiveStarted(p) ==
    /\ prog[p].pc = "starting" /\ Returned(p)
    /\ \/ /\ call[p].code = "OK"
          /\ objects' = [objects EXCEPT ![call[p].obj] = "running"]
       \/ /\ call[p].code # "OK" \/ InitFails
          /\ UNCHANGED objects
    /\ CallIs(p, NoCall)
    /\ Done(p)
    /\ UNCHANGED <<namespaceMap, ctl, num, maxNum, down, idOf, aborted>>

ReceiverEnds(o) ==
    /\ objects[o] = "running" /\ \A p \in Clients : prog[p].obj # o \/ prog[p].pc = "finish"
    /\ objects' = [objects EXCEPT ![o] = "done"]
    /\ UNCHANGED <<namespaceMap, ctl, num, maxNum, call, down, prog, idOf, aborted>>

(* getReceiver, and finish(), which waits for the transfer unless it never *)
(* began.  One thread finishes a receiver, after wdtReceiveStart returned. *)
WdtReceiveFinish(p, key) ==
    /\ prog[p].pc = "idle" /\ ~down
    /\ namespaceMap[Namespace] # 0
    /\ key \in Held(namespaceMap[Namespace], "receiver")
    /\ \A q \in Clients : prog[q].req.key = key => prog[q].pc \notin {"starting", "finish", "releasing"}
    /\ prog' = [prog EXCEPT ![p] =
          [pc |-> "finish", first |-> TRUE,
           obj |-> ctl[namespaceMap[Namespace]].map["receiver"][key],
           req |-> [key |-> key, id |-> 0, terminate |-> FALSE]]]
    /\ UNCHANGED <<rcVars, idOf, aborted>>

FinishJoined(p) ==
    /\ prog[p].pc = "finish" /\ objects[prog[p].obj] # "running"
    /\ BeginRelease(p, "release", "receiver", Namespace, prog[p].req.key)
    /\ Goto(p, "releasing")
    /\ UNCHANGED <<idOf, aborted>>

-----------------------------------------------------------------------------
Send(p) ==
    CreateReturned(p) \/ Terminate(p) \/ Terminated(p) \/ CreateAgain(p)
        \/ SenderInit(p) \/ TransferEnds(p) \/ ReleaseWdtSender(p) \/ Finished(p)

Receive(p) ==
    \/ ReceiveStarted(p) \/ FinishJoined(p)
    \/ \E key \in Keys : WdtReceiveStart(p, key) \/ WdtReceiveFinish(p, key)

ApiNext ==
    \/ \E p \in Clients : InController(p) \/ Send(p)
    \/ \E p \in Clients, req \in Requests : WdtSend(p, req)
    \/ /\ "receiver" \in Kinds
       /\ \/ \E p \in Clients : Receive(p)
          \/ \E o \in DOMAIN objects : ReceiverEnds(o)

ApiSpec == Init /\ [][ApiNext]_vars

-----------------------------------------------------------------------------
Find(key, kind) ==
    IF namespaceMap[Namespace] = 0 \/ key \notin Held(namespaceMap[Namespace], kind)
    THEN 0 ELSE ctl[namespaceMap[Namespace]].map[kind][key]

Sending == {p \in Clients : prog[p].pc = "transfer"}

(* A sender for this destination was replaced.  The call that made it will *)
(* release by destination, whichever sender is found there by then.        *)
Replaced(key) == \E o \in aborted, req \in Requests : req.id = idOf[o] /\ req.key = key

(* createSender: "You can get this sender back by using the same           *)
(* identifier" until it has been released: a sender that is at work is     *)
(* found under its destination, unless it or one before it was replaced    *)
(* there; what happens at other destinations does not matter.              *)
CanGetBack ==
    \A p \in Sending :
        ~Replaced(prog[p].req.key) => Find(prog[p].req.key, "sender") = prog[p].obj

(* When all calls have returned, what is counted against the limits is     *)
(* what can be found and released, although calls may have released each   *)
(* other's senders; and wdtSend has left no sender behind, unless its      *)
(* init() failed.                                                          *)
NothingLeft ==
    (\A p \in Clients : prog[p].pc = "idle") =>
        /\ \A k \in Kinds : num[k] = Cardinality({key \in Keys : Find(key, k) # 0})
        /\ ~InitFails => num["sender"] = 0

(* A receiver is at work only if it can be found, so that                  *)
(* wdtReceiveFinish can wait for it.                                       *)
ReceiversFound ==
    \A o \in DOMAIN objects :
        objects[o] = "running" /\ (\A p \in Clients : prog[p].obj # o) =>
            \E key \in Keys : Find(key, "receiver") = o
=============================================================================

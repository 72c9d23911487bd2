----------------------------- MODULE MCProcess -----------------------------
(***************************************************************************)
(* What the transfers of one process share, for TLC: the resource          *)
(* controller, the functions applications call, and the rate limiter.  One *)
(* behaviour is about one setting, which the variable part names; the      *)
(* other components rest in their initial state.                           *)
(*   counting      ResourceController: senders made and released by two    *)
(*                 clients, in a namespace that may be removed meanwhile   *)
(*   limits        ResourceController: senders and receivers, limits that  *)
(*                 change, namespaces that must be registered              *)
(*   sending       WdtApi: wdtSend for the same and other destinations     *)
(*   replacing     WdtApi: wdtSend with terminateExistingOne               *)
(*   receiving     WdtApi: receivers too, and init() that fails            *)
(*   rates         Throttler: average rates that change                    *)
(*   peak          Throttler: a peak rate and three threads                *)
(***************************************************************************)
EXTENDS TLC, Integers

CONSTANTS Parts, p1, p2, p3, q1, q2

VARIABLES part,
          \* ResourceController
          namespaceMap, ctl, num, maxNum, objects, call, down,
          \* WdtApi
          prog, idOf, aborted,
          \* Throttler
          now, th, refs, thread, sent, asked, allowance, resets

controllerVars == <<namespaceMap, ctl, num, maxNum, objects, call, down>>
apiVars == <<prog, idOf, aborted>>
throttlerVars == <<now, th, refs, thread, sent, asked, allowance, resets>>
vars == <<part, controllerVars, apiVars, throttlerVars>>

-----------------------------------------------------------------------------
Three == {p1, p2, p3}
Two == {q1, q2}
Symmetry == Permutations(Three) \cup Permutations(Two)

Senders == {"sender"}
Both == {"sender", "receiver"}
Limit(kinds, n) == [k \in kinds |-> n]

Counting == INSTANCE ResourceController WITH
    Clients <- Two, Kinds <- Senders, Namespaces <- {"n1"}, Keys <- {"k1", "k2"},
    Limits <- {}, GlobalLimit <- Limit(Senders, 2), NamespaceLimit <- Limit(Senders, 0),
    Strict <- FALSE,
    Operations <- {"create", "release", "releaseAll", "releaseStale", "deRegister"},
    MaxControllers <- 2, MaxObjects <- 3

Quotas == INSTANCE ResourceController WITH
    Clients <- Two, Kinds <- Both, Namespaces <- {"n1"}, Keys <- {"k1", "k2"},
    Limits <- {1}, GlobalLimit <- Limit(Both, 2), NamespaceLimit <- Limit(Both, 1),
    Strict <- TRUE, Operations <- {"create", "release", "register"},
    MaxControllers <- 1, MaxObjects <- 2

Request(key, id, terminate) == [key |-> key, id |-> id, terminate |-> terminate]

Sending == INSTANCE WdtApi WITH
    Clients <- Three, Kinds <- Senders, Namespaces <- {"n1"}, Namespace <- "n1",
    Keys <- {"k1", "k2", "k3"}, Limits <- {}, GlobalLimit <- Limit(Senders, 2),
    NamespaceLimit <- Limit(Senders, 0), Strict <- FALSE, Operations <- {},
    MaxControllers <- 1, MaxObjects <- 3, InitFails <- FALSE,
    Requests <- {Request("k1", 1, FALSE), Request("k1", 2, FALSE), Request("k2", 3, FALSE),
                 Request("k3", 4, FALSE)}

Replacing == INSTANCE WdtApi WITH
    Clients <- Three, Kinds <- Senders, Namespaces <- {"n1"}, Namespace <- "n1",
    Keys <- {"k1", "k2"}, Limits <- {}, GlobalLimit <- Limit(Senders, 2),
    NamespaceLimit <- Limit(Senders, 0), Strict <- FALSE, Operations <- {},
    MaxControllers <- 1, MaxObjects <- 3, InitFails <- FALSE,
    Requests <- {Request("k1", 1, FALSE), Request("k1", 2, TRUE), Request("k2", 3, TRUE)}

Receiving == INSTANCE WdtApi WITH
    Clients <- Two, Kinds <- Both, Namespaces <- {"n1"}, Namespace <- "n1",
    Keys <- {"k1", "k2"}, Limits <- {}, GlobalLimit <- Limit(Both, 0),
    NamespaceLimit <- Limit(Both, 1), Strict <- FALSE, Operations <- {},
    MaxControllers <- 1, MaxObjects <- 3, InitFails <- TRUE,
    Requests <- {Request("k1", 1, FALSE)}

Rate(avg, peak, bucket) == [avg |-> avg, peak |-> peak, bucket |-> bucket]

Rated == INSTANCE Throttler WITH
    Threads <- Two, Transfers <- {"x1", "x2"}, Second <- 1,
    Rates <- {Rate(1, -1, 0), Rate(2, 4, 0)}, FirstRates <- Rate(1, -1, 0),
    SingleRequestLimit <- 2, Requests <- {1, 3}, MaxTime <- 4, MaxBytes <- 5, MaxResets <- 2

Peaked == INSTANCE Throttler WITH
    Threads <- Three, Transfers <- {"x1"}, Second <- 1,
    Rates <- {}, FirstRates <- Rate(-1, 2, 0),
    SingleRequestLimit <- 2, Requests <- {1, 3}, MaxTime <- 4, MaxBytes <- 8, MaxResets <- 1

ASSUME Rated!ThrottlerAssumption /\ Peaked!ThrottlerAssumption

-----------------------------------------------------------------------------
Init ==
    /\ part \in Parts
    /\ CASE part = "limits" -> Quotas!InitController
         [] part = "sending" -> Sending!InitController
         [] part = "replacing" -> Replacing!InitController
         [] part = "receiving" -> Receiving!InitController
         [] OTHER -> Counting!InitController
    /\ prog = [p \in IF part = "receiving" THEN Two ELSE Three |-> Sending!NoProg]
    /\ idOf = [o \in 1 .. 3 |-> 0]
    /\ aborted = {}
    /\ IF part = "rates" THEN Rated!Init ELSE Peaked!Init

Count ==
    /\ part = "counting" /\ Counting!Next
    /\ UNCHANGED <<part, apiVars, throttlerVars>>
ApplyLimits ==
    /\ part = "limits" /\ Quotas!Next
    /\ UNCHANGED <<part, apiVars, throttlerVars>>
Send ==
    /\ part = "sending" /\ Sending!ApiNext
    /\ UNCHANGED <<part, throttlerVars>>
Replace ==
    /\ part = "replacing" /\ Replacing!ApiNext
    /\ UNCHANGED <<part, throttlerVars>>
Receive ==
    /\ part = "receiving" /\ Receiving!ApiNext
    /\ UNCHANGED <<part, throttlerVars>>
Throttle ==
    /\ \/ part = "rates" /\ Rated!Next
       \/ part = "peak" /\ Peaked!Next
    /\ UNCHANGED <<part, controllerVars, apiVars>>

Next == Count \/ ApplyLimits \/ Send \/ Replace \/ Receive \/ Throttle

Spec == Init /\ [][Next]_vars

-----------------------------------------------------------------------------
(***************************************************************************)
(* WdtResourceController: every sender or receiver that numSenders_ or     *)
(* numReceivers_ counts is in the map of a namespace or in the hands of a  *)
(* call that has counted it before, or will uncount it after, the map      *)
(* changes, also when the namespace is removed meanwhile.  What is created *)
(* in it after it was emptied stays counted: the checks of shutdown() that *)
(* the counts are zero hold unless that has happened.                      *)
(***************************************************************************)
CountsMatch ==
    CASE part = "counting" -> Counting!CountsMatch
      [] part = "limits" -> Quotas!CountsMatch
      [] OTHER -> TRUE

(***************************************************************************)
(* wdtSend, wdtReceiveStart: a sender that is at work is found under its   *)
(* destination, unless one was replaced there (terminateExistingOne), and  *)
(* a receiver that is at work by wdtReceiveFinish.  When all calls have    *)
(* returned, what is counted against the limits can be found and released, *)
(* however the releases of a replaced call and of its successor crossed;   *)
(* and no sender is left, unless an init() failed.                         *)
(***************************************************************************)
TransfersTracked ==
    CASE part = "sending" -> Sending!CanGetBack /\ Sending!NothingLeft
      [] part = "replacing" -> Replacing!CanGetBack /\ Replacing!NothingLeft
      [] part = "receiving" ->
           Receiving!CanGetBack /\ Receiving!NothingLeft /\ Receiving!ReceiversFound
      [] OTHER -> TRUE

(***************************************************************************)
(* Throttler: however the calls of the threads interleave with each other, *)
(* with new transfers and with changes of the rates, the threads have not  *)
(* gone on with more than the average rate allowed, except for the pieces  *)
(* that were being slept on when the progress was reset; nor with more     *)
(* than the bucket was filled with, also when they read the clock in one   *)
(* order and take the lock in another.                                     *)
(***************************************************************************)
RatesRespected ==
    CASE part = "rates" -> Rated!AverageRespected
      [] part = "peak" -> Peaked!PeakRespected
      [] OTHER -> TRUE
=============================================================================

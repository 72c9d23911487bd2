----------------------------- MODULE SampleApp -----------------------------
(***************************************************************************)
(* The state of the sample application around a transfer: what Stop stops, *)
(* whether the screen is busy, and the notification of the foreground      *)
(* service (MainActivity, TransferService).  Clicks and posted runnables   *)
(* run on the UI thread, transfers on the executor's threads, pushes from  *)
(* other devices on the thread of the push server, progress on threads of  *)
(* the transfers.                                                          *)
(***************************************************************************)
EXTENDS Sequences, FiniteSets

CONSTANTS
    Early,      \* transfers whose Stop is set as they start: downloads, pushes
    Late,       \* those that first open their files: shares, sends
    Shares,     \* of these, the ones that serve downloads: shares, the self-test
    Incoming,   \* pushes from other devices
    None,
    AnswerTimesOut,     \* whether a minute may pass without an answer
    Refreshes,          \* whether shares appear nearby during a transfer
    Destroyed           \* whether the application may be swiped away

VARIABLES
    pc,             \* where each transfer is
    stoppable,
    busy,           \* Stop is shown, the buttons are disabled
    listButton,     \* an enabled button was added to the list meanwhile
    posted,         \* runOnUiThread
    dialog,         \* the request the user is asked about
    accepted, answered,
    running,        \* TransferService.running
    shown,          \* the ongoing notification is shown
    updating,       \* transfers whose progress passed the check in update()
    closing, closed,    \* close() is called, and has run
    stopPressed,
    alive,          \* the activity is not destroyed
    crossed         \* history: a transfer was started beside one that was opening

vars == <<pc, stoppable, busy, listButton, posted, dialog, accepted, answered, running, shown,
          updating, closing, closed, stopPressed, alive, crossed>>

Transfers == Early \cup Late \cup Incoming

Init ==
    /\ pc = [t \in Transfers |-> "new"]
    /\ stoppable = None /\ busy = FALSE /\ listButton = FALSE
    /\ posted = <<>> /\ dialog = None /\ accepted = {} /\ answered = {}
    /\ running = FALSE /\ shown = FALSE /\ updating = {}
    /\ closing = {} /\ closed = {} /\ stopPressed = FALSE /\ alive = TRUE
    /\ crossed = FALSE

Goto(t, where) == pc' = [pc EXCEPT ![t] = where]
Post(what, t) == posted' = Append(posted, [what |-> what, of |-> t])

(* A transfer starts beside one that is being opened: the screen is busy   *)
(* but stoppable is null, or was when the button was made.                 *)
Cross == crossed' = (crossed \/ (busy /\ (stoppable = None \/ listButton)))

-----------------------------------------------------------------------------
(* The UI thread *)

(* setBusy, with TransferService.start *)
SetBusy == busy' = TRUE /\ listButton' = FALSE /\ running' = TRUE /\ shown' = TRUE

(* setIdle, with TransferService.stop *)
SetIdle ==
    /\ busy' = FALSE /\ listButton' = FALSE /\ stoppable' = None
    /\ running' = FALSE /\ shown' = (shown /\ ~running)

(* push, startDownload, receiveFromComputer *)
StartEarly(t) ==
    /\ alive /\ (~busy \/ listButton) /\ pc[t] = "new"
    /\ SetBusy /\ stoppable' = t /\ Cross
    /\ Goto(t, "transfer")
    /\ UNCHANGED <<posted, dialog, accepted, answered, updating, closing, closed, stopPressed,
                   alive>>

(* startSharing, sendToComputer, selfTest *)
StartLate(t) ==
    /\ alive /\ (~busy \/ listButton) /\ pc[t] = "new"
    /\ SetBusy /\ Cross
    /\ Goto(t, "open")
    /\ UNCHANGED <<stoppable, posted, dialog, accepted, answered, updating, closing, closed,
                   stopPressed, alive>>

(* updateNearbyShares, searchNearby: a new button, enabled if stoppable is *)
(* null                                                                    *)
RefreshList ==
    /\ alive /\ Refreshes /\ busy /\ stoppable = None
    /\ listButton' = TRUE
    /\ UNCHANGED <<pc, stoppable, busy, posted, dialog, accepted, answered, running, shown,
                   updating, closing, closed, stopPressed, alive, crossed>>

(* The Stop button, or the notification's: nothing while stoppable is null *)
PressStop ==
    /\ alive /\ busy /\ stoppable # None
    /\ stopPressed' = TRUE
    /\ closing' = closing \cup {stoppable}
    /\ UNCHANGED <<pc, stoppable, busy, listButton, posted, dialog, accepted, answered, running,
                   shown, updating, closed, alive, crossed>>

(* The Accept button of the dialog of onPush *)
Accept_Unchecked ==
    /\ alive /\ dialog # None
    /\ accepted' = accepted \cup {dialog} /\ SetBusy /\ Cross
    /\ answered' = answered \cup {dialog} /\ dialog' = None
    /\ UNCHANGED <<pc, stoppable, posted, updating, closing, closed, stopPressed, alive>>

Accept ==
    /\ alive /\ dialog # None
    /\ \/ stoppable = None /\ accepted' = accepted \cup {dialog} /\ SetBusy /\ Cross
       \/ stoppable # None /\ UNCHANGED <<accepted, busy, listButton, running, shown, crossed>>
    /\ answered' = answered \cup {dialog} /\ dialog' = None
    /\ UNCHANGED <<pc, stoppable, posted, updating, closing, closed, stopPressed, alive>>

Decline ==
    /\ alive /\ dialog # None
    /\ answered' = answered \cup {dialog} /\ dialog' = None
    /\ UNCHANGED <<pc, stoppable, busy, listButton, posted, accepted, running, shown, updating,
                   closing, closed, stopPressed, alive, crossed>>

(* The next posted runnable *)
RunPosted ==
    /\ posted # <<>>
    /\ posted' = Tail(posted)
    /\ LET p == Head(posted) IN
       \/ /\ p.what = "idle" /\ SetIdle
          /\ stopPressed' = FALSE
          /\ UNCHANGED dialog
       \/ /\ p.what = "dialog"
          /\ dialog' = p.of
          /\ UNCHANGED <<busy, listButton, stoppable, running, shown, stopPressed>>
       \/ /\ p.what = "dismiss"
          /\ dialog' = IF dialog = p.of THEN None ELSE dialog
          /\ UNCHANGED <<busy, listButton, stoppable, running, shown, stopPressed>>
    /\ UNCHANGED <<pc, accepted, answered, updating, closing, closed, alive, crossed>>

OnDestroy ==
    /\ alive /\ Destroyed
    /\ alive' = FALSE /\ dialog' = None
    /\ closing' = closing \cup ({stoppable} \ {None})
    /\ running' = FALSE /\ shown' = (shown /\ ~running)
    /\ UNCHANGED <<pc, stoppable, busy, listButton, posted, accepted, answered, updating, closed,
                   stopPressed, crossed>>

-----------------------------------------------------------------------------
(* The threads of the transfers *)

(* finally { runOnUiThread { setIdle() } } *)
End(t) == Post("idle", t) /\ Goto(t, "done")

OpenFails(t) ==
    /\ pc[t] \in {"open", "receive"}
    /\ End(t)
    /\ UNCHANGED <<stoppable, busy, listButton, dialog, accepted, answered, running, shown,
                   updating, closing, closed, stopPressed, alive, crossed>>

(* stoppable = server, TransferStopper(sender), TransferStopper(receiver) *)
SetStoppable(t) ==
    /\ pc[t] \in {"open", "receive"}
    /\ stoppable' = t
    /\ Goto(t, "transfer")
    /\ UNCHANGED <<busy, listButton, posted, dialog, accepted, answered, running, shown, updating,
                   closing, closed, stopPressed, alive, crossed>>

(* The blocking call returns: a transfer has joined the thread that tells  *)
(* its progress, serve() of a share waits for none of its handlers.        *)
Ended(t) == pc[t] = "transfer" /\ (t \in updating => t \in Shares)

TransferEnds(t) ==
    /\ Ended(t)
    /\ End(t)
    /\ UNCHANGED <<stoppable, busy, listButton, dialog, accepted, answered, running, shown,
                   updating, closing, closed, stopPressed, alive, crossed>>

CloseRuns(t) ==
    /\ t \in closing
    /\ closing' = closing \ {t} /\ closed' = closed \cup {t}
    /\ UNCHANGED <<pc, stoppable, busy, listButton, posted, dialog, accepted, answered, running,
                   shown, updating, stopPressed, alive, crossed>>

(* TransferService.progress: the check of running, by a transfer or by a   *)
(* handler that goes on after its share ...                                *)
Progress(t) ==
    /\ pc[t] = "transfer" \/ (pc[t] = "done" /\ t \in Shares)
    /\ t \notin updating /\ running
    /\ updating' = updating \cup {t}
    /\ UNCHANGED <<pc, stoppable, busy, listButton, posted, dialog, accepted, answered, running,
                   shown, closing, closed, stopPressed, alive, crossed>>

(* ... and the notification *)
Notify(t) ==
    /\ t \in updating
    /\ updating' = updating \ {t} /\ shown' = TRUE
    /\ UNCHANGED <<pc, stoppable, busy, listButton, posted, dialog, accepted, answered, running,
                   closing, closed, stopPressed, alive, crossed>>

-----------------------------------------------------------------------------
(* onPush, one request at a time *)

OnPush(t) ==
    /\ alive /\ pc[t] = "new"
    /\ \A u \in Incoming : pc[u] \in {"new", "done"}
    /\ \/ stoppable # None /\ Goto(t, "done") /\ UNCHANGED posted
       \/ stoppable = None /\ Post("dialog", t) /\ Goto(t, "ask")
    /\ UNCHANGED <<stoppable, busy, listButton, dialog, accepted, answered, running, shown,
                   updating, closing, closed, stopPressed, alive, crossed>>

(* The latch opens, or a minute has passed. *)
Await(t) ==
    /\ pc[t] = "ask"
    /\ \/ t \in answered /\ UNCHANGED posted
       \/ t \notin answered /\ AnswerTimesOut /\ Post("dismiss", t)
    /\ Goto(t, "decide")
    /\ UNCHANGED <<stoppable, busy, listButton, dialog, accepted, answered, running, shown,
                   updating, closing, closed, stopPressed, alive, crossed>>

Decide(t) ==
    /\ pc[t] = "decide"
    /\ Goto(t, IF t \in accepted THEN "receive" ELSE "done")
    /\ UNCHANGED <<stoppable, busy, listButton, posted, dialog, accepted, answered, running, shown,
                   updating, closing, closed, stopPressed, alive, crossed>>

-----------------------------------------------------------------------------
Ui == PressStop \/ Accept \/ Decline \/ RefreshList \/ OnDestroy
Work(t) == OpenFails(t) \/ SetStoppable(t) \/ TransferEnds(t) \/ CloseRuns(t) \/ Notify(t)

Next ==
    \/ \E t \in Early : StartEarly(t)
    \/ \E t \in Late : StartLate(t)
    \/ \E t \in Incoming : OnPush(t) \/ Await(t) \/ Decide(t)
    \/ \E t \in Transfers : Work(t) \/ Progress(t)
    \/ RunPosted \/ Ui

Spec == Init /\ [][Next]_vars

(* The UI thread runs what is posted; threads go on; a transfer ends once  *)
(* its close() has run.                                                    *)
FairSpec ==
    /\ Spec
    /\ WF_vars(RunPosted)
    /\ \A t \in Transfers :
          /\ WF_vars(OpenFails(t) \/ SetStoppable(t)) /\ WF_vars(CloseRuns(t)) /\ WF_vars(Notify(t))
          /\ SF_vars(t \in closed /\ TransferEnds(t))
    /\ \A t \in Incoming : WF_vars(Await(t)) /\ WF_vars(Decide(t))

-----------------------------------------------------------------------------
(* A transfer that is going on or will, and makes the screen busy *)
Live(t) ==
    \/ pc[t] \in {"open", "receive", "transfer"}
    \/ pc[t] \in {"ask", "decide"} /\ t \in accepted
    \/ \E i \in DOMAIN posted : posted[i] = [what |-> "idle", of |-> t]

(***************************************************************************)
(* "What Stop stops": while the application is open, stoppable is the      *)
(* transfer that is going on, so there is only one, and Stop is shown for  *)
(* it; unless a transfer was started, or the button for it was made, while *)
(* another was opening its files and stoppable said that there was none.   *)
(***************************************************************************)
StopReaches ==
    alive /\ ~crossed =>
        \A t \in Transfers : pc[t] = "transfer" => stoppable = t /\ busy /\ running

(* setBusy: "A transfer starts".  The screen, the wake lock and the        *)
(* notification are held only while there is a transfer.                   *)
BusyHasTransfer == alive /\ busy => \E t \in Transfers : Live(t)

(* TransferService.stop: "The transfer is over: removes its notification", *)
(* which progress that is told at the same time does not bring back while  *)
(* the application is open, unless it is the progress of a share's handler *)
(* that goes on after the share.                                           *)
NotificationGone ==
    alive /\ ~crossed /\ shown /\ ~running => \E t \in Shares : pc[t] = "done"

(* Stop, pressed when stoppable is set, ends what is going on: the screen  *)
(* is idle again.                                                          *)
StopEnds == stopPressed ~> ~busy
=============================================================================

------------------------------- MODULE MCApps -------------------------------
(***************************************************************************)
(* The Android library, its sample application and the desktop tool, for   *)
(* TLC.  One behaviour is about one setting, which the variable part       *)
(* names; the other components rest in their initial state.                *)
(*   receiver, sender   NativeTransfer, of either kind                     *)
(*   downloads          ShareSession: a share and the ones that download   *)
(*   sends              ShareSession: pushes to one receiver               *)
(*   incoming           SampleApp: downloads while others push files       *)
(*   shares             SampleApp: shares, sends and a download            *)
(*   list               SampleApp: all kinds, and shares appear nearby     *)
(*   stops              SampleApp: downloads, a share and Stop             *)
(*   phone, computer    Hub: one device of either kind                     *)
(*   folder             DesktopReceive: pushes, one after the other        *)
(*   processes          DesktopReceive: pushes, and awdt get               *)
(***************************************************************************)
EXTENDS NativeTransfer, TLC

CONSTANTS Parts, StoppedSides, d1, d2, s1, s2, e1, e2, l1, l2, i1, i2, p1, c1, r1,
          r2, r3, none

VARIABLES part,
          \* ShareSession
          client, handler, ends, said, field, shareClosed, shareClosing, sender, wdtLock,
          connections, listening, shareAborted,
          \* SampleApp
          appPc, stoppable, busy, listButton, posted, dialog, accepted, answered, running,
          shown, updating, closing, closed, stopPressed, alive, crossed,
          \* Hub
          devices, age, present, sharing, receiving, announceIn, discoverIn, lost, heard,
          \* DesktopReceive
          deskPc, staging, todo, copy, folder, saved, usualPorts, deskBusy, raced

shareVars == <<client, handler, ends, said, field, shareClosed, shareClosing, sender, wdtLock,
               connections, listening, shareAborted>>
appVars == <<appPc, stoppable, busy, listButton, posted, dialog, accepted, answered, running,
             shown, updating, closing, closed, stopPressed, alive, crossed>>
hubVars == <<devices, age, present, sharing, receiving, announceIn, discoverIn, lost, heard>>
deskVars == <<deskPc, staging, todo, copy, folder, saved, usualPorts, deskBusy, raced>>
allVars == <<part, vars, shareVars, appVars, hubVars, deskVars>>

-----------------------------------------------------------------------------
Sender == INSTANCE NativeTransfer WITH
    Kind <- "sender", Operations <- {"transfer", "abort", "close"}

Downloading == INSTANCE ShareSession WITH
    Downloads <- {d1, d2}, Pushes <- {}, Nobody <- none, Stopped <- StoppedSides,
    closed <- shareClosed, closing <- shareClosing, aborted <- shareAborted
Pushing == INSTANCE ShareSession WITH
    Downloads <- {}, Pushes <- {s1, s2}, Nobody <- none, Stopped <- {s1, s2},
    closed <- shareClosed, closing <- shareClosing, aborted <- shareAborted

Asked == INSTANCE SampleApp WITH
    Early <- {e1, e2}, Late <- {}, Shares <- {}, Incoming <- {i1, i2}, None <- none,
    AnswerTimesOut <- TRUE, Refreshes <- FALSE, Destroyed <- TRUE, pc <- appPc
Sharing == INSTANCE SampleApp WITH
    Early <- {e1}, Late <- {l1, l2}, Shares <- {l1}, Incoming <- {}, None <- none,
    AnswerTimesOut <- FALSE, Refreshes <- FALSE, Destroyed <- FALSE, pc <- appPc
Listing == INSTANCE SampleApp WITH
    Early <- {e1, e2}, Late <- {l1}, Shares <- {l1}, Incoming <- {i1}, None <- none,
    AnswerTimesOut <- FALSE, Refreshes <- TRUE, Destroyed <- FALSE, pc <- appPc
Stopping == INSTANCE SampleApp WITH
    Early <- {e1, e2}, Late <- {l1}, Shares <- {l1}, Incoming <- {}, None <- none,
    AnswerTimesOut <- FALSE, Refreshes <- FALSE, Destroyed <- FALSE, pc <- appPc

(* The periods and times to live of the code, in seconds. *)
OnePhone == INSTANCE Hub WITH
    Phones <- {p1}, Computers <- {}, AnnounceEvery <- 3, DiscoverEvery <- 10,
    PhoneTtl <- 12, ComputerTtl <- 35, LostAnnouncements <- 2, LostAnswers <- 2,
    MaxDelay <- 1
OneComputer == INSTANCE Hub WITH
    Phones <- {}, Computers <- {c1}, AnnounceEvery <- 3, DiscoverEvery <- 10,
    PhoneTtl <- 12, ComputerTtl <- 35, LostAnnouncements <- 2, LostAnswers <- 2,
    MaxDelay <- 1

Folder == INSTANCE DesktopReceive WITH
    Pushes <- {r1, r2, r3}, Gets <- {}, Names <- {"a", "b"}, Nobody <- none, MaxCopies <- 3,
    pc <- deskPc, busy <- deskBusy
Processes == INSTANCE DesktopReceive WITH
    Pushes <- {r1, r2}, Gets <- {r3}, Names <- {"a"}, Nobody <- none, MaxCopies <- 3,
    pc <- deskPc, busy <- deskBusy

-----------------------------------------------------------------------------
AppsInit ==
    /\ part \in Parts
    /\ Init
    /\ IF part = "sends" THEN Pushing!Init ELSE Downloading!Init
    /\ CASE part = "shares" -> Sharing!Init
         [] part = "list" -> Listing!Init
         [] part = "stops" -> Stopping!Init
         [] OTHER -> Asked!Init
    /\ IF part = "phone" THEN OnePhone!Init ELSE OneComputer!Init
    /\ IF part = "processes" THEN Processes!Init ELSE Folder!Init

NativeReceive ==
    /\ part = "receiver" /\ Next
    /\ UNCHANGED <<part, shareVars, appVars, hubVars, deskVars>>
NativeSend ==
    /\ part = "sender" /\ Sender!Next
    /\ UNCHANGED <<part, shareVars, appVars, hubVars, deskVars>>
ShareFiles ==
    /\ part = "downloads" /\ Downloading!Next
    /\ UNCHANGED <<part, vars, appVars, hubVars, deskVars>>
SendFiles ==
    /\ part = "sends" /\ Pushing!Next
    /\ UNCHANGED <<part, vars, appVars, hubVars, deskVars>>
UseApp ==
    /\ \/ part = "incoming" /\ Asked!Next
       \/ part = "shares" /\ Sharing!Next
       \/ part = "list" /\ Listing!Next
       \/ part = "stops" /\ Stopping!Next
    /\ UNCHANGED <<part, vars, shareVars, hubVars, deskVars>>
HearDevices ==
    /\ \/ part = "phone" /\ OnePhone!Next
       \/ part = "computer" /\ OneComputer!Next
    /\ UNCHANGED <<part, vars, shareVars, appVars, deskVars>>
SaveFiles ==
    /\ \/ part = "folder" /\ Folder!Next
       \/ part = "processes" /\ Processes!Next
    /\ UNCHANGED <<part, vars, shareVars, appVars, hubVars>>

AppsNext ==
    NativeReceive \/ NativeSend \/ ShareFiles \/ SendFiles \/ UseApp \/ HearDevices \/ SaveFiles

AppsSpec == AppsInit /\ [][AppsNext]_allVars

-----------------------------------------------------------------------------
(***************************************************************************)
(* Fairness.  Threads run; the threads of a transfer end once it is        *)
(* aborted; a lock is granted to each thread that waits for it; reads,     *)
(* transfers and waits for an answer end by their timeouts at the latest;  *)
(* the UI thread runs what is posted.                                      *)
(***************************************************************************)
NativeFair ==
    /\ \A t \in Threads : /\ WF_vars(part = "receiver" /\ Step(t))
                          /\ SF_vars(part = "receiver" /\ CloseLocks(t))
    /\ WF_vars(part = "receiver" /\ abortFlag /\ WorkersEnd)
    /\ WF_vars(part = "receiver" /\ Report) /\ WF_vars(part = "receiver" /\ ListenerReturns)
    /\ WF_vars(part = "receiver" /\ ListenerAborts)
    /\ WF_vars(part = "receiver" /\ ListenerAborted)

DownloadsFair ==
    \A c \in {d1, d2} : /\ WF_shareVars(part = "downloads" /\ Downloading!ClientStep(c))
                        /\ SF_shareVars(part = "downloads" /\ Downloading!HandlerStep(c))
SendsFair ==
    \A c \in {s1, s2} : /\ WF_shareVars(part = "sends" /\ Pushing!ClientStep(c))
                        /\ SF_shareVars(part = "sends" /\ Pushing!HandlerStep(c))

StopsFair ==
    /\ WF_appVars(part = "stops" /\ Stopping!RunPosted)
    /\ \A t \in {e1, e2, l1} :
          /\ WF_appVars(part = "stops" /\ (Stopping!OpenFails(t) \/ Stopping!SetStoppable(t)))
          /\ WF_appVars(part = "stops" /\ Stopping!CloseRuns(t))
          /\ WF_appVars(part = "stops" /\ Stopping!Notify(t))
          /\ SF_appVars(part = "stops" /\ t \in closed /\ Stopping!TransferEnds(t))

ProcessesFair ==
    \A r \in {r1, r2, r3} : /\ WF_deskVars(part = "processes" /\ Processes!Step(r))
                            /\ SF_deskVars(part = "processes" /\ Processes!Begin(r))

-----------------------------------------------------------------------------
(* WdtDownload, WdtPush: once close() of a download or of a push has       *)
(* returned, the transfer run() may have started is aborted, whatever      *)
(* run() was doing when close() was called.                                *)
ClientStops ==
    CASE part = "downloads" -> Downloading!ClientStops
      [] part = "sends" -> Pushing!ClientStops
      [] OTHER -> TRUE

(***************************************************************************)
(* MainActivity, "What Stop stops": while the application is open,         *)
(* stoppable is the transfer that is going on, so there is only one, and   *)
(* Stop is shown for it, unless a transfer was started or accepted, or its *)
(* button made, while another was opening its files.  Its notification is  *)
(* gone once it is over, unless it is a share, whose handlers are not      *)
(* waited for.  And the screen, the wake lock and the notification are     *)
(* held only while there is a transfer (setBusy), if nobody presses Accept *)
(* after onPush has stopped waiting for it.                                *)
(***************************************************************************)
ScreenIsRight ==
    CASE part = "incoming" -> Asked!StopReaches /\ Asked!NotificationGone
      [] part = "shares" ->
           Sharing!StopReaches /\ Sharing!NotificationGone /\ Sharing!BusyHasTransfer
      [] part = "list" ->
           Listing!StopReaches /\ Listing!NotificationGone /\ Listing!BusyHasTransfer
      [] OTHER -> TRUE

(* Hub: a device that is there and was heard of does not vanish from the   *)
(* page although two announcements, or two answers, are lost in a row, and *)
(* sending makes the broadcasts come up to a second late.                  *)
PresentIsListed ==
    CASE part = "phone" -> OnePhone!PresentIsListed
      [] part = "computer" -> OneComputer!PresentIsListed
      [] OTHER -> TRUE

(* moveReceived, "renaming instead of overwriting": a file that awdt       *)
(* receive, or awdt get, has saved stays what it is whatever is received   *)
(* later; only a process that had found the same name free before it was   *)
(* taken replaces it.                                                      *)
NothingOverwritten ==
    CASE part = "folder" -> Folder!NothingOverwritten
      [] part = "processes" -> Processes!NothingOverwritten
      [] OTHER -> TRUE

(* WdtTransfer: close() returns although another thread is blocked in the  *)
(* transfer, and also when the listener calls abort() meanwhile.           *)
CloseEnds == [](part = "receiver") /\ NativeFair => CloseReturns

(* WdtTransfer: once the transfer is aborted the blocking call returns.    *)
AbortEnds == [](part = "receiver") /\ NativeFair => BlockingReturns

(* WdtDownload: run() returns whatever the other side does.                *)
RunsReturn == [](part = "downloads") /\ DownloadsFair => Downloading!RunsReturn

(* ShareServer, PushServer: a handler ends, so that the next download or   *)
(* push gets its turn.                                                     *)
HandlersEnd ==
    /\ [](part = "downloads") /\ DownloadsFair => Downloading!HandlersEnd
    /\ [](part = "sends") /\ SendsFair => Pushing!HandlersEnd

(* MainActivity: Stop ends what is going on, and the screen is idle again. *)
StopEnds == [](part = "stops") /\ StopsFair => Stopping!StopEnds

(* cmdReceive: a push that waits gets its turn, whatever happened to the   *)
(* ones before.                                                            *)
EveryPushHandled == [](part = "processes") /\ ProcessesFair => Processes!EveryPushHandled

(***************************************************************************)
(* What is stopped ends, and nobody waits for ever behind it: close(), the *)
(* blocking calls, run(), the handlers of a share or a push, the transfer  *)
(* Stop was pressed for, and the pushes to a computer.                     *)
(***************************************************************************)
EverythingEnds ==
    /\ CloseEnds /\ AbortEnds /\ RunsReturn /\ HandlersEnd /\ StopEnds
    /\ EveryPushHandled
=============================================================================

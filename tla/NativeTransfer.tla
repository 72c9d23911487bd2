--------------------------- MODULE NativeTransfer ---------------------------
(***************************************************************************)
(* A WdtSender or WdtReceiver of the Android library: the Kotlin object    *)
(* (WdtTransfer) whose handle points to a native Sender or Receiver, and   *)
(* the life of the latter: start(), its transfer threads and its progress  *)
(* thread, finish() and the destructor.  One application thread is in the  *)
(* blocking calls; abort() and close() are called from any thread, abort() *)
(* also from the listener, which the progress thread calls.                *)
(***************************************************************************)
EXTENDS Integers, FiniteSets

CONSTANTS
    Threads,        \* application threads
    Reporter,       \* the native progress thread
    Nobody,
    Kind,           \* "sender" or "receiver"
    Operations,     \* what the application threads call
    MaxAborts       \* bound: calls of abort()

ASSUME ThreadsAssumption == Reporter \notin Threads /\ Nobody \notin Threads \cup {Reporter}

VARIABLES
    readers, writer,    \* the ReentrantReadWriteLock
    handle,             \* handle # 0
    freed,              \* the native object was deleted
    connectionUrl,      \* connectionUrl # null
    abortFlag,          \* abortFlag, or the abort code the destructor sets
    status,             \* transferStatus_
    workers,            \* the transfer's threads
    reporter,           \* what the progress thread does
    instanceLock,       \* instanceManagementMutex_
    pc, op,             \* where each application thread is, in which call
    ended,              \* how often the listener was told of the end
    aborts, aborted     \* calls of abort(), and whether one returned

lockVars == <<readers, writer>>
nativeVars == <<freed, abortFlag, status, workers, reporter, instanceLock, ended>>
vars == <<lockVars, nativeVars, handle, connectionUrl, pc, op, aborts, aborted>>

Init ==
    /\ readers = {} /\ writer = Nobody
    /\ handle = TRUE /\ freed = FALSE /\ connectionUrl = FALSE /\ abortFlag = FALSE
    /\ status = "NOT_STARTED" /\ workers = "none" /\ reporter = "none"
    /\ instanceLock = Nobody
    /\ pc = [t \in Threads |-> "idle"] /\ op = [t \in Threads |-> "none"]
    /\ ended = 0 /\ aborts = 0 /\ aborted = FALSE

Goto(t, where) == pc' = [pc EXCEPT ![t] = where]

(* One thread is in the blocking calls, and starts a receiver once. *)
Blocking == {"start", "finish", "transfer"}
Free == \A t \in Threads : op[t] \notin Blocking

Call(t, o) ==
    /\ pc[t] = "idle"
    /\ \/ o = "start" /\ Free /\ status = "NOT_STARTED" /\ Goto(t, "enter")
       \/ o = "finish" /\ connectionUrl /\ Goto(t, "enter")
       \/ o = "transfer" /\ Free /\ Goto(t, "enter")
       \/ o = "abort" /\ aborts < MaxAborts /\ Goto(t, "abort")
       \/ o = "close" /\ Goto(t, "abort")
    /\ op' = [op EXCEPT ![t] = o]
    /\ aborts' = IF o = "abort" THEN aborts + 1 ELSE aborts
    /\ UNCHANGED <<lockVars, nativeVars, handle, connectionUrl, aborted>>

(* withHandle: the read lock, and an exception when the handle is gone. *)
WithHandle_Unlocked(t) ==
    /\ pc[t] = "enter" /\ writer = Nobody
    /\ Goto(t, IF op[t] = "finish" THEN "finish" ELSE "init")
    /\ UNCHANGED <<lockVars, op, nativeVars, handle, connectionUrl, aborted, aborts>>

WithHandle(t) ==
    /\ pc[t] = "enter" /\ writer = Nobody
    /\ \/ /\ handle
          /\ readers' = readers \cup {t}
          /\ Goto(t, IF op[t] = "finish" THEN "finish" ELSE "init")
          /\ UNCHANGED op
       \/ /\ ~handle
          /\ Goto(t, "idle")
          /\ op' = [op EXCEPT ![t] = "none"]
          /\ UNCHANGED readers
    /\ UNCHANGED <<writer, nativeVars, handle, connectionUrl, aborted, aborts>>

(* Back from native code. *)
Leave(t) ==
    /\ Goto(t, "idle")
    /\ op' = [op EXCEPT ![t] = "none"]
    /\ readers' = readers \ {t}
    /\ UNCHANGED writer

-----------------------------------------------------------------------------
(* receiverStart and senderTransfer *)

(* init() *)
InitTransfer(t) ==
    /\ pc[t] = "init"
    /\ \/ Goto(t, "begin") /\ UNCHANGED <<op, lockVars>>
       \/ Leave(t)
    /\ UNCHANGED <<nativeVars, handle, connectionUrl, aborted, aborts>>

(* Sender::start or Receiver::start.  A sender that was started before     *)
(* refuses.                                                                *)
Begin(t) ==
    /\ pc[t] = "begin"
    /\ \/ /\ status = "NOT_STARTED"
          /\ status' = "ONGOING" /\ workers' = "running" /\ reporter' = "wait"
          /\ IF op[t] = "start"
             THEN Leave(t) /\ connectionUrl' = TRUE
             ELSE Goto(t, "finish") /\ UNCHANGED <<op, lockVars, connectionUrl>>
       \/ /\ status # "NOT_STARTED"
          /\ Leave(t)
          /\ UNCHANGED <<status, workers, reporter, connectionUrl>>
    /\ UNCHANGED <<freed, abortFlag, instanceLock, ended, handle, aborted, aborts>>

(* The transfer's threads come to an end; the last one ends the session. *)
WorkersEnd ==
    /\ workers = "running"
    /\ workers' = "ended" /\ status' = "FINISHED"
    /\ UNCHANGED <<lockVars, freed, abortFlag, reporter, instanceLock, ended, handle,
                   connectionUrl, pc, op, aborted, aborts>>

-----------------------------------------------------------------------------
(* finish(), from awaitFinish, transfer or the destructor *)

AfterFinish(t) ==
    IF op[t] = "close" THEN Goto(t, "delete") /\ UNCHANGED <<op, lockVars>> ELSE Leave(t)

FinishBegins_NoCheck(t) ==
    /\ pc[t] = "finish" /\ instanceLock = Nobody
    /\ Goto(t, "join")
    /\ instanceLock' = t
    /\ UNCHANGED <<op, lockVars, freed, abortFlag, status, workers, reporter, ended, handle,
                   connectionUrl, aborted, aborts>>

FinishBegins(t) ==
    /\ pc[t] = "finish" /\ instanceLock = Nobody
    /\ \/ /\ status \in {"NOT_STARTED", "THREADS_JOINED"}
          /\ AfterFinish(t)
          /\ UNCHANGED instanceLock
       \/ /\ status \notin {"NOT_STARTED", "THREADS_JOINED"}
          /\ Goto(t, "join")
          /\ instanceLock' = t
          /\ UNCHANGED <<op, lockVars>>
    /\ UNCHANGED <<freed, abortFlag, status, workers, reporter, ended, handle,
                   connectionUrl, aborted, aborts>>

JoinThreads(t) ==
    /\ pc[t] = "join" /\ workers \in {"ended", "joined"}
    /\ workers' = "joined" /\ status' = "THREADS_JOINED"
    /\ Goto(t, "joinReporter")
    /\ UNCHANGED <<lockVars, freed, abortFlag, reporter, instanceLock, ended, handle,
                   connectionUrl, op, aborted, aborts>>

(* A receiver that was never told the size of the transfer does not report *)
(* its end.                                                                *)
JoinReporter(t) ==
    /\ pc[t] = "joinReporter" /\ reporter \in {"ended", "joined"}
    /\ reporter' = "joined"
    /\ \/ ended' = ended + 1
       \/ Kind = "receiver" /\ ended' = ended
    /\ instanceLock' = Nobody
    /\ AfterFinish(t)
    /\ UNCHANGED <<freed, abortFlag, status, workers, handle, connectionUrl, aborted, aborts>>

-----------------------------------------------------------------------------
(* The progress thread: reportProgress or progressTracker *)

Report ==
    /\ reporter = "wait"
    /\ reporter' = IF status = "THREADS_JOINED" THEN "ended" ELSE "listener"
    /\ UNCHANGED <<lockVars, freed, abortFlag, status, workers, instanceLock, ended, handle,
                   connectionUrl, pc, op, aborted, aborts>>

(* onProgress returns, or calls abort(). *)
ListenerReturns ==
    /\ reporter = "listener"
    /\ \/ reporter' = "wait" /\ UNCHANGED aborts
       \/ /\ "abort" \in Operations /\ aborts < MaxAborts
          /\ reporter' = "call" /\ aborts' = aborts + 1
    /\ UNCHANGED <<lockVars, freed, abortFlag, status, workers, instanceLock, ended, handle,
                   connectionUrl, pc, op, aborted>>

ListenerAborts ==
    /\ reporter = "call"
    /\ \/ /\ writer = Nobody
          /\ readers' = readers \cup {Reporter} /\ reporter' = "abort"
          /\ UNCHANGED aborted
       \/ /\ writer # Nobody
          /\ reporter' = "wait" /\ aborted' = TRUE
          /\ UNCHANGED readers
    /\ UNCHANGED <<writer, freed, abortFlag, status, workers, instanceLock, ended, handle,
                   connectionUrl, pc, op, aborts>>

ListenerAborted ==
    /\ reporter = "abort"
    /\ abortFlag' = (abortFlag \/ handle) /\ aborted' = TRUE
    /\ readers' = readers \ {Reporter} /\ reporter' = "wait"
    /\ UNCHANGED <<writer, freed, status, workers, instanceLock, ended, handle,
                   connectionUrl, pc, op, aborts>>

-----------------------------------------------------------------------------
(* abort() and close() *)

AfterAbort(t) ==
    /\ Goto(t, IF op[t] = "close" THEN "write" ELSE "idle")
    /\ op' = IF op[t] = "close" THEN op ELSE [op EXCEPT ![t] = "none"]
    /\ aborted' = TRUE

(* tryLock *)
AbortLocks(t) ==
    /\ pc[t] = "abort"
    /\ \/ /\ writer = Nobody
          /\ readers' = readers \cup {t}
          /\ Goto(t, "aborting")
          /\ UNCHANGED <<op, aborted>>
       \/ /\ writer # Nobody
          /\ AfterAbort(t)
          /\ UNCHANGED readers
    /\ UNCHANGED <<writer, nativeVars, handle, connectionUrl, aborts>>

AbortSets_Skipped(t) ==
    /\ pc[t] = "aborting"
    /\ readers' = readers \ {t}
    /\ AfterAbort(t)
    /\ UNCHANGED <<abortFlag, writer, freed, status, workers, reporter, instanceLock, ended,
                   handle, connectionUrl, aborts>>

AbortSets(t) ==
    /\ pc[t] = "aborting"
    /\ abortFlag' = (abortFlag \/ handle)
    /\ readers' = readers \ {t}
    /\ AfterAbort(t)
    /\ UNCHANGED <<writer, freed, status, workers, reporter, instanceLock, ended, handle,
                   connectionUrl, aborts>>

(* The write lock, and the destructor up to finish(). *)
CloseLocks(t) ==
    /\ pc[t] = "write" /\ writer = Nobody /\ readers = {}
    /\ \/ /\ handle
          /\ writer' = t
          /\ abortFlag' = (abortFlag \/ status = "ONGOING")
          /\ Goto(t, "finish")
          /\ UNCHANGED op
       \/ /\ ~handle
          /\ Goto(t, "idle") /\ op' = [op EXCEPT ![t] = "none"]
          /\ UNCHANGED <<writer, abortFlag>>
    /\ UNCHANGED <<readers, freed, status, workers, reporter, instanceLock, ended, handle,
                   connectionUrl, aborted, aborts>>

(* The destructor ends: the handle is zero before the lock is released. *)
Delete(t) ==
    /\ pc[t] = "delete"
    /\ freed' = TRUE /\ handle' = FALSE
    /\ writer' = Nobody
    /\ Goto(t, "idle") /\ op' = [op EXCEPT ![t] = "none"]
    /\ UNCHANGED <<readers, abortFlag, status, workers, reporter, instanceLock, ended,
                   connectionUrl, aborted, aborts>>

-----------------------------------------------------------------------------
Step(t) ==
    WithHandle(t) \/ InitTransfer(t) \/ Begin(t) \/ FinishBegins(t) \/ JoinThreads(t)
        \/ JoinReporter(t) \/ AbortLocks(t) \/ AbortSets(t) \/ CloseLocks(t) \/ Delete(t)

ReporterStep == Report \/ ListenerReturns \/ ListenerAborts \/ ListenerAborted

Next ==
    \/ \E t \in Threads : Step(t) \/ \E o \in Operations : Call(t, o)
    \/ WorkersEnd \/ ReporterStep

Spec == Init /\ [][Next]_vars

(* Threads go on; the threads of a transfer end once it is aborted.        *)
(* close() gets the write lock although other threads come for the read    *)
(* lock: these queue up behind it.                                         *)
FairSpec ==
    /\ Spec
    /\ \A t \in Threads : WF_vars(Step(t)) /\ SF_vars(CloseLocks(t))
    /\ WF_vars(abortFlag /\ WorkersEnd)
    /\ WF_vars(Report) /\ WF_vars(ListenerReturns) /\ WF_vars(ListenerAborts)
    /\ WF_vars(ListenerAborted)

-----------------------------------------------------------------------------
InNative(t) == pc[t] \in {"init", "begin", "finish", "join", "joinReporter"}

TypeOK ==
    /\ readers \subseteq Threads \cup {Reporter} /\ writer \in Threads \cup {Nobody}
    /\ instanceLock \in Threads \cup {Nobody}
    /\ status \in {"NOT_STARTED", "ONGOING", "FINISHED", "THREADS_JOINED"}
    /\ workers \in {"none", "running", "ended", "joined"}
    /\ reporter \in {"none", "wait", "listener", "call", "abort", "ended", "joined"}
    /\ pc \in [Threads -> {"idle", "enter", "init", "begin", "finish", "join", "joinReporter",
                           "abort", "aborting", "write", "delete"}]
    /\ op \in [Threads -> Blocking \cup {"none", "abort", "close"}]
    /\ handle \in BOOLEAN /\ freed \in BOOLEAN /\ connectionUrl \in BOOLEAN
    /\ abortFlag \in BOOLEAN /\ aborted \in BOOLEAN
    /\ ended \in 0 .. 1 /\ aborts \in Nat

(* withHandle "Runs block with the live native handle, while keeping it    *)
(* alive": once the native object is deleted no application thread is in   *)
(* its code, and its own threads have ended, whoever called abort() and    *)
(* close() when.                                                           *)
NoUseAfterFree ==
    freed => /\ ~handle
             /\ \A t \in Threads : ~InNative(t)
             /\ workers \in {"none", "joined"} /\ reporter \in {"none", "joined"}

(* A listener hears of the end at most once, and of no progress after it.  *)
EndIsLast == ended <= 1 /\ (ended = 1 => reporter = "joined")

(* abort(): "Failing to lock means close() is running, and it aborts       *)
(* itself".  After abort() returned, a transfer that was running has been  *)
(* told to end, or close() is waiting for its end.                         *)
AbortTakesEffect == aborted /\ workers = "running" => abortFlag

(* close() returns although another thread is blocked in the transfer, and *)
(* also when the listener calls abort() while close() waits for it.        *)
CloseReturns == \A t \in Threads : op[t] = "close" ~> op[t] # "close"

(* abort() "Stops the transfer": the blocking call returns.                *)
BlockingReturns ==
    \A t \in Threads : op[t] \in Blocking /\ abortFlag ~> op[t] \notin Blocking
=============================================================================

------------------------ MODULE NativeTransferProofs ------------------------
(***************************************************************************)
(* A native transfer is never used after it is deleted, its listener hears *)
(* of one end and of nothing after it, and abort() takes effect: for any   *)
(* number of application threads, any number of calls of abort(), senders  *)
(* and receivers.                                                          *)
(***************************************************************************)
EXTENDS NativeTransfer, TLAPS

(* The values of pc and op, as in TypeOK. *)
Places == {"idle", "enter", "init", "begin", "finish", "join", "joinReporter",
           "abort", "aborting", "write", "delete"}
Calls == Blocking \cup {"none", "abort", "close"}

(* The rest of TypeOK, but for the set of readers. *)
ScalarsOK ==
    /\ writer \in Threads \cup {Nobody} /\ instanceLock \in Threads \cup {Nobody}
    /\ status \in {"NOT_STARTED", "ONGOING", "FINISHED", "THREADS_JOINED"}
    /\ workers \in {"none", "running", "ended", "joined"}
    /\ reporter \in {"none", "wait", "listener", "call", "abort", "ended", "joined"}
    /\ ended \in 0 .. 1 /\ aborts \in Nat
BooleansOK ==
    /\ handle \in BOOLEAN /\ freed \in BOOLEAN /\ connectionUrl \in BOOLEAN
    /\ abortFlag \in BOOLEAN /\ aborted \in BOOLEAN

(* Inside the native object as close() is: in the destructor. *)
Destroying(t) == op[t] = "close" /\ pc[t] \in {"finish", "join", "joinReporter", "delete"}

(* Which call a thread can be in, which lock it then holds: the read lock  *)
(* in native code, the write lock in the destructor, the native mutex      *)
(* while it joins.                                                         *)
ThreadInv(t) ==
    /\ pc[t] \in {"enter", "init", "begin"} => op[t] \in Blocking
    /\ pc[t] \in {"abort", "aborting"} => op[t] \in {"abort", "close"}
    /\ pc[t] \in {"write", "delete"} => op[t] = "close"
    /\ InNative(t) => op[t] \in Blocking \cup {"close"}
    /\ InNative(t) /\ op[t] # "close" => t \in readers
    /\ Destroying(t) => writer = t
    /\ InNative(t) \/ pc[t] = "delete" => handle
    /\ pc[t] \in {"join", "joinReporter"} =>
           instanceLock = t /\ status # "NOT_STARTED" /\ reporter # "joined"
    /\ pc[t] = "join" => status # "THREADS_JOINED"
    /\ pc[t] = "joinReporter" => status = "THREADS_JOINED"
    /\ pc[t] = "delete" => workers \in {"none", "joined"} /\ reporter \in {"none", "joined"}

(* The life of the native object, and of its threads. *)
LifeInv ==
    /\ freed <=> ~handle
    /\ freed => workers \in {"none", "joined"} /\ reporter \in {"none", "joined"}
    /\ status = "NOT_STARTED" => workers = "none" /\ reporter = "none"
    /\ status = "ONGOING" => workers = "running"
    /\ status = "FINISHED" => workers = "ended"
    /\ status = "THREADS_JOINED" => workers = "joined"
    /\ status # "NOT_STARTED" => reporter # "none"
    /\ reporter = "joined" => status = "THREADS_JOINED"
    /\ status = "THREADS_JOINED" /\ instanceLock = Nobody => reporter = "joined"
    /\ ended \in 0 .. 1 /\ (ended = 1 => reporter = "joined")

(* The write lock excludes the others, and close() aborts what runs. *)
LockInv ==
    /\ writer # Nobody => readers = {}
    /\ writer # Nobody /\ status = "ONGOING" => abortFlag
    /\ aborted => abortFlag \/ writer # Nobody \/ ~handle

Inv == TypeOK /\ LifeInv /\ LockInv /\ \A t \in Threads : ThreadInv(t)

-----------------------------------------------------------------------------
(* A new transfer: the native object exists and nobody uses it. *)
LEMMA InitInv == Init => Inv
<1> SUFFICES ASSUME Init PROVE Inv
  OBVIOUS
<1>1. TypeOK
  <2>1. readers \subseteq Threads \cup {Reporter}
    BY DEF Init
  <2>2. pc \in [Threads -> Places] /\ op \in [Threads -> Calls]
    BY DEF Init, Places, Calls, Blocking
  <2>3. ScalarsOK
    BY DEF Init, ScalarsOK
  <2>4. BooleansOK
    BY DEF Init, BooleansOK
  <2>5. QED
    BY <2>1, <2>2, <2>3, <2>4, Zenon DEF TypeOK, ScalarsOK, BooleansOK, Places, Calls
<1>2. LifeInv /\ LockInv
  BY DEF Init, LifeInv, LockInv
<1>3. ASSUME NEW t \in Threads PROVE ThreadInv(t)
  BY <1>3 DEF Init, ThreadInv, Destroying, InNative
<1>4. QED
  BY <1>1, <1>2, <1>3 DEF Inv

(* A call begins: no lock is taken, and nothing native changes. *)
LEMMA CallInv ==
    ASSUME Inv, NEW t \in Threads, NEW o \in Operations, Call(t, o)
    PROVE  Inv'
<1> USE ThreadsAssumption DEF Inv
<1>1. TypeOK'
  BY DEF Call, Goto, Free, lockVars, nativeVars, TypeOK, Blocking
<1>2. LifeInv'
  BY DEF Call, Goto, Free, lockVars, nativeVars, TypeOK, LifeInv, LockInv, ThreadInv,
         InNative, Destroying, Blocking
<1>3. LockInv'
  BY DEF Call, Goto, Free, lockVars, nativeVars, TypeOK, LifeInv, LockInv, ThreadInv,
         InNative, Destroying, Blocking
<1>4. ASSUME NEW u \in Threads
      PROVE  ThreadInv(u)'
  BY DEF Call, Goto, Free, lockVars, nativeVars, TypeOK, LifeInv, LockInv, ThreadInv,
         InNative, Destroying, Blocking
<1>5. QED
  BY <1>1, <1>2, <1>3, <1>4

(* withHandle enters native code with the read lock, when the handle is there. *)
LEMMA WithHandleInv ==
    ASSUME Inv, NEW t \in Threads, WithHandle(t)
    PROVE  Inv'
<1> USE ThreadsAssumption DEF Inv
<1>1. TypeOK'
  BY DEF WithHandle, Goto, nativeVars, TypeOK, Blocking
<1>2. LifeInv'
  BY DEF WithHandle, Goto, nativeVars, TypeOK, LifeInv, LockInv, ThreadInv, InNative,
         Destroying, Blocking
<1>3. LockInv'
  BY DEF WithHandle, Goto, nativeVars, TypeOK, LifeInv, LockInv, ThreadInv, InNative,
         Destroying, Blocking
<1>4. ASSUME NEW u \in Threads
      PROVE  ThreadInv(u)'
  BY DEF WithHandle, Goto, nativeVars, TypeOK, LifeInv, LockInv, ThreadInv, InNative,
         Destroying, Blocking
<1>5. QED
  BY <1>1, <1>2, <1>3, <1>4

(* init() returns. *)
LEMMA InitTransferInv ==
    ASSUME Inv, NEW t \in Threads, InitTransfer(t)
    PROVE  Inv'
<1> USE ThreadsAssumption DEF Inv
<1>1. TypeOK'
  BY DEF InitTransfer, Goto, Leave, lockVars, nativeVars, TypeOK, Blocking
<1>2. LifeInv'
  BY DEF InitTransfer, Goto, Leave, lockVars, nativeVars, TypeOK, LifeInv, LockInv,
         ThreadInv, InNative, Destroying, Blocking
<1>3. LockInv'
  BY DEF InitTransfer, Goto, Leave, lockVars, nativeVars, TypeOK, LifeInv, LockInv,
         ThreadInv, InNative, Destroying, Blocking
<1>4. ASSUME NEW u \in Threads
      PROVE  ThreadInv(u)'
  BY DEF InitTransfer, Goto, Leave, lockVars, nativeVars, TypeOK, LifeInv, LockInv,
         ThreadInv, InNative, Destroying, Blocking
<1>5. QED
  BY <1>1, <1>2, <1>3, <1>4

(* start() is called under the read lock: not while the destructor runs. *)
LEMMA BeginInv ==
    ASSUME Inv, NEW t \in Threads, Begin(t)
    PROVE  Inv'
<1> USE ThreadsAssumption DEF Inv
<1>1. TypeOK'
  <2>1. readers' \subseteq Threads \cup {Reporter}
    BY DEF Begin, Goto, Leave, lockVars, TypeOK
  <2>2. pc' \in [Threads -> Places] /\ op' \in [Threads -> Calls]
    BY DEF Begin, Goto, Leave, lockVars, TypeOK, Places, Calls, Blocking
  <2>3. ScalarsOK'
    BY DEF Begin, Goto, Leave, lockVars, TypeOK, ScalarsOK
  <2>4. BooleansOK'
    BY DEF Begin, Goto, Leave, lockVars, TypeOK, BooleansOK
  <2>5. QED
    BY <2>1, <2>2, <2>3, <2>4, Zenon DEF TypeOK, ScalarsOK, BooleansOK, Places, Calls
<1>2. LifeInv'
  BY DEF Begin, Goto, Leave, lockVars, TypeOK, LifeInv, LockInv, ThreadInv, InNative,
         Destroying, Blocking
<1>3. LockInv'
  BY DEF Begin, Goto, Leave, lockVars, TypeOK, LifeInv, LockInv, ThreadInv, InNative,
         Destroying, Blocking
<1>4. ASSUME NEW u \in Threads
      PROVE  ThreadInv(u)'
  BY DEF Begin, Goto, Leave, lockVars, TypeOK, LifeInv, LockInv, ThreadInv, InNative,
         Destroying, Blocking
<1>5. QED
  BY <1>1, <1>2, <1>3, <1>4

(* finish() has nothing to join, or takes the mutex. *)
LEMMA FinishBeginsInv ==
    ASSUME Inv, NEW t \in Threads, FinishBegins(t)
    PROVE  Inv'
<1> USE ThreadsAssumption DEF Inv
<1>1. TypeOK'
  BY DEF FinishBegins, Goto, Leave, AfterFinish, lockVars, TypeOK, Blocking
<1>2. LifeInv'
  BY DEF FinishBegins, Goto, Leave, AfterFinish, lockVars, TypeOK, LifeInv, LockInv,
         ThreadInv, InNative, Destroying, Blocking
<1>3. LockInv'
  BY DEF FinishBegins, Goto, Leave, AfterFinish, lockVars, TypeOK, LifeInv, LockInv,
         ThreadInv, InNative, Destroying, Blocking
<1>4. ASSUME NEW u \in Threads
      PROVE  ThreadInv(u)'
  BY DEF FinishBegins, Goto, Leave, AfterFinish, lockVars, TypeOK, LifeInv, LockInv,
         ThreadInv, InNative, Destroying, Blocking
<1>5. QED
  BY <1>1, <1>2, <1>3, <1>4

(* The transfer threads are joined. *)
LEMMA JoinThreadsInv ==
    ASSUME Inv, NEW t \in Threads, JoinThreads(t)
    PROVE  Inv'
<1> USE ThreadsAssumption DEF Inv
<1>1. TypeOK'
  BY DEF JoinThreads, Goto, lockVars, TypeOK, Blocking
<1>2. LifeInv'
  BY DEF JoinThreads, Goto, lockVars, TypeOK, LifeInv, LockInv, ThreadInv, InNative,
         Destroying, Blocking
<1>3. LockInv'
  BY DEF JoinThreads, Goto, lockVars, TypeOK, LifeInv, LockInv, ThreadInv, InNative,
         Destroying, Blocking
<1>4. ASSUME NEW u \in Threads
      PROVE  ThreadInv(u)'
  BY DEF JoinThreads, Goto, lockVars, TypeOK, LifeInv, LockInv, ThreadInv, InNative,
         Destroying, Blocking
<1>5. QED
  BY <1>1, <1>2, <1>3, <1>4

(* The progress thread is joined, once. *)
LEMMA JoinReporterInv ==
    ASSUME Inv, NEW t \in Threads, JoinReporter(t)
    PROVE  Inv'
<1> USE ThreadsAssumption DEF Inv
<1>1. TypeOK'
  BY DEF JoinReporter, Goto, Leave, AfterFinish, lockVars, TypeOK, LifeInv, ThreadInv,
         InNative, Destroying, Blocking
<1>2. LifeInv'
  BY DEF JoinReporter, Goto, Leave, AfterFinish, lockVars, TypeOK, LifeInv, LockInv,
         ThreadInv, InNative, Destroying, Blocking
<1>3. LockInv'
  BY DEF JoinReporter, Goto, Leave, AfterFinish, lockVars, TypeOK, LifeInv, LockInv,
         ThreadInv, InNative, Destroying, Blocking
<1>4. ASSUME NEW u \in Threads
      PROVE  ThreadInv(u)'
  BY DEF JoinReporter, Goto, Leave, AfterFinish, lockVars, TypeOK, LifeInv, LockInv,
         ThreadInv, InNative, Destroying, Blocking
<1>5. QED
  BY <1>1, <1>2, <1>3, <1>4

(* abort() gets the read lock, or leaves it to close(). *)
LEMMA AbortLocksInv ==
    ASSUME Inv, NEW t \in Threads, AbortLocks(t)
    PROVE  Inv'
<1> USE ThreadsAssumption DEF Inv
<1>1. TypeOK'
  <2>1. readers' \subseteq Threads \cup {Reporter}
    BY DEF AbortLocks, Goto, AfterAbort, nativeVars, TypeOK
  <2>2. pc' \in [Threads -> Places] /\ op' \in [Threads -> Calls]
    BY DEF AbortLocks, Goto, AfterAbort, nativeVars, TypeOK, Places, Calls, Blocking
  <2>3. ScalarsOK'
    BY DEF AbortLocks, Goto, AfterAbort, nativeVars, TypeOK, ScalarsOK
  <2>4. BooleansOK'
    BY DEF AbortLocks, Goto, AfterAbort, nativeVars, TypeOK, BooleansOK
  <2>5. QED
    BY <2>1, <2>2, <2>3, <2>4, Zenon DEF TypeOK, ScalarsOK, BooleansOK, Places, Calls
<1>2. LifeInv'
  BY DEF AbortLocks, Goto, AfterAbort, nativeVars, TypeOK, LifeInv, LockInv, ThreadInv,
         InNative, Destroying, Blocking
<1>3. LockInv'
  BY DEF AbortLocks, Goto, AfterAbort, nativeVars, TypeOK, LifeInv, LockInv, ThreadInv,
         InNative, Destroying, Blocking
<1>4. ASSUME NEW u \in Threads
      PROVE  ThreadInv(u)'
  <2>1. CASE u = t
    BY <2>1 DEF AbortLocks, Goto, AfterAbort, nativeVars, TypeOK, ThreadInv,
           InNative, Destroying, Blocking
  <2>2. CASE u # t
    BY <2>2 DEF AbortLocks, Goto, AfterAbort, nativeVars, TypeOK, ThreadInv,
           InNative, Destroying, Blocking
  <2>3. QED
    BY <2>1, <2>2
<1>5. QED
  BY <1>1, <1>2, <1>3, <1>4

(* abort() sets the flag. *)
LEMMA AbortSetsInv ==
    ASSUME Inv, NEW t \in Threads, AbortSets(t)
    PROVE  Inv'
<1> USE ThreadsAssumption DEF Inv
<1>1. TypeOK'
  BY DEF AbortSets, Goto, AfterAbort, TypeOK, Blocking
<1>2. LifeInv'
  BY DEF AbortSets, Goto, AfterAbort, TypeOK, LifeInv, LockInv, ThreadInv, InNative,
         Destroying, Blocking
<1>3. LockInv'
  BY DEF AbortSets, Goto, AfterAbort, TypeOK, LifeInv, LockInv, ThreadInv, InNative,
         Destroying, Blocking
<1>4. ASSUME NEW u \in Threads
      PROVE  ThreadInv(u)'
  BY DEF AbortSets, Goto, AfterAbort, TypeOK, LifeInv, LockInv, ThreadInv, InNative,
         Destroying, Blocking
<1>5. QED
  BY <1>1, <1>2, <1>3, <1>4

(* close() gets the write lock when nobody is in native code. *)
LEMMA CloseLocksInv ==
    ASSUME Inv, NEW t \in Threads, CloseLocks(t)
    PROVE  Inv'
<1> USE ThreadsAssumption DEF Inv
<1>1. TypeOK'
  BY DEF CloseLocks, Goto, TypeOK, Blocking
<1>2. LifeInv'
  BY DEF CloseLocks, Goto, TypeOK, LifeInv, LockInv, ThreadInv, InNative, Destroying,
         Blocking
<1>3. LockInv'
  BY DEF CloseLocks, Goto, TypeOK, LifeInv, LockInv, ThreadInv, InNative, Destroying,
         Blocking
<1>4. ASSUME NEW u \in Threads
      PROVE  ThreadInv(u)'
  BY DEF CloseLocks, Goto, TypeOK, LifeInv, LockInv, ThreadInv, InNative, Destroying,
         Blocking
<1>5. QED
  BY <1>1, <1>2, <1>3, <1>4

(* The native object is gone when its threads are. *)
LEMMA DeleteInv ==
    ASSUME Inv, NEW t \in Threads, Delete(t)
    PROVE  Inv'
<1> USE ThreadsAssumption DEF Inv
<1>1. TypeOK'
  <2>1. readers' \subseteq Threads \cup {Reporter}
    BY DEF Delete, Goto, TypeOK
  <2>2. pc' \in [Threads -> Places] /\ op' \in [Threads -> Calls]
    BY DEF Delete, Goto, TypeOK, Places, Calls, Blocking
  <2>3. ScalarsOK'
    BY DEF Delete, Goto, TypeOK, ScalarsOK
  <2>4. BooleansOK'
    BY DEF Delete, Goto, TypeOK, BooleansOK
  <2>5. QED
    BY <2>1, <2>2, <2>3, <2>4, Zenon DEF TypeOK, ScalarsOK, BooleansOK, Places, Calls
<1>2. LifeInv'
  BY DEF Delete, Goto, TypeOK, LifeInv, LockInv, ThreadInv, InNative, Destroying, Blocking
<1>3. LockInv'
  BY DEF Delete, Goto, TypeOK, LifeInv, LockInv, ThreadInv, InNative, Destroying, Blocking
<1>4. ASSUME NEW u \in Threads
      PROVE  ThreadInv(u)'
  <2>1. writer = t /\ readers = {} /\ t # Nobody
    BY DEF Delete, LockInv, ThreadInv, Destroying
  <2>2. CASE u = t
    BY <2>2 DEF Delete, Goto, TypeOK, ThreadInv, InNative, Destroying, Blocking
  <2>3. CASE u # t
    <3>1. pc'[u] = pc[u] /\ op'[u] = op[u]
      BY <2>3 DEF Delete, Goto, TypeOK
    <3>2. ~ InNative(u) /\ ~ Destroying(u) /\ pc[u] # "delete"
      BY <2>1, <2>3 DEF ThreadInv, InNative, Destroying, Blocking
    <3>3. QED
      BY <3>1, <3>2 DEF Delete, ThreadInv, InNative, Destroying
  <2>4. QED
    BY <2>2, <2>3
<1>5. QED
  BY <1>1, <1>2, <1>3, <1>4

(* The last transfer thread ends. *)
LEMMA WorkersEndInv ==
    ASSUME Inv, WorkersEnd
    PROVE  Inv'
<1> USE ThreadsAssumption DEF Inv
<1>1. TypeOK'
  BY DEF WorkersEnd, lockVars, TypeOK, Blocking
<1>2. LifeInv'
  BY DEF WorkersEnd, lockVars, TypeOK, LifeInv, LockInv, ThreadInv, InNative, Destroying,
         Blocking
<1>3. LockInv'
  BY DEF WorkersEnd, lockVars, TypeOK, LifeInv, LockInv, ThreadInv, InNative, Destroying,
         Blocking
<1>4. ASSUME NEW u \in Threads
      PROVE  ThreadInv(u)'
  BY DEF WorkersEnd, lockVars, TypeOK, LifeInv, LockInv, ThreadInv, InNative, Destroying,
         Blocking
<1>5. QED
  BY <1>1, <1>2, <1>3, <1>4

(* The progress thread looks at the status. *)
LEMMA ReportInv ==
    ASSUME Inv, Report
    PROVE  Inv'
<1> USE ThreadsAssumption DEF Inv
<1>1. TypeOK'
  BY DEF Report, lockVars, TypeOK, Blocking
<1>2. LifeInv'
  BY DEF Report, lockVars, TypeOK, LifeInv, LockInv, ThreadInv, InNative, Destroying,
         Blocking
<1>3. LockInv'
  BY DEF Report, lockVars, TypeOK, LifeInv, LockInv, ThreadInv, InNative, Destroying,
         Blocking
<1>4. ASSUME NEW u \in Threads
      PROVE  ThreadInv(u)'
  BY DEF Report, lockVars, TypeOK, LifeInv, LockInv, ThreadInv, InNative, Destroying,
         Blocking
<1>5. QED
  BY <1>1, <1>2, <1>3, <1>4

(* The listener returns or decides to abort. *)
LEMMA ListenerReturnsInv ==
    ASSUME Inv, ListenerReturns
    PROVE  Inv'
<1> USE ThreadsAssumption DEF Inv
<1>1. TypeOK'
  BY DEF ListenerReturns, lockVars, TypeOK, Blocking
<1>2. LifeInv'
  BY DEF ListenerReturns, lockVars, TypeOK, LifeInv, LockInv, ThreadInv, InNative,
         Destroying, Blocking
<1>3. LockInv'
  BY DEF ListenerReturns, lockVars, TypeOK, LifeInv, LockInv, ThreadInv, InNative,
         Destroying, Blocking
<1>4. ASSUME NEW u \in Threads
      PROVE  ThreadInv(u)'
  BY DEF ListenerReturns, lockVars, TypeOK, LifeInv, LockInv, ThreadInv, InNative,
         Destroying, Blocking
<1>5. QED
  BY <1>1, <1>2, <1>3, <1>4

(* The listener calls abort(). *)
LEMMA ListenerAbortsInv ==
    ASSUME Inv, ListenerAborts
    PROVE  Inv'
<1> USE ThreadsAssumption DEF Inv
<1>1. TypeOK'
  <2>1. readers' \subseteq Threads \cup {Reporter}
    BY DEF ListenerAborts, TypeOK
  <2>2. pc' \in [Threads -> Places] /\ op' \in [Threads -> Calls]
    BY DEF ListenerAborts, TypeOK, Places, Calls, Blocking
  <2>3. ScalarsOK'
    BY DEF ListenerAborts, TypeOK, ScalarsOK
  <2>4. BooleansOK'
    BY DEF ListenerAborts, TypeOK, BooleansOK
  <2>5. QED
    BY <2>1, <2>2, <2>3, <2>4, Zenon DEF TypeOK, ScalarsOK, BooleansOK, Places, Calls
<1>2. LifeInv'
  BY DEF ListenerAborts, TypeOK, LifeInv, LockInv, ThreadInv, InNative, Destroying, Blocking
<1>3. LockInv'
  BY DEF ListenerAborts, LockInv
<1>4. ASSUME NEW u \in Threads
      PROVE  ThreadInv(u)'
  BY DEF ListenerAborts, TypeOK, LifeInv, LockInv, ThreadInv, InNative, Destroying, Blocking
<1>5. QED
  BY <1>1, <1>2, <1>3, <1>4

(* The abort of the listener sets the flag. *)
LEMMA ListenerAbortedInv ==
    ASSUME Inv, ListenerAborted
    PROVE  Inv'
<1> USE ThreadsAssumption DEF Inv
<1>1. TypeOK'
  BY DEF ListenerAborted, TypeOK, Blocking
<1>2. LifeInv'
  BY DEF ListenerAborted, TypeOK, LifeInv, LockInv, ThreadInv, InNative, Destroying,
         Blocking
<1>3. LockInv'
  BY DEF ListenerAborted, TypeOK, LifeInv, LockInv, ThreadInv, InNative, Destroying,
         Blocking
<1>4. ASSUME NEW u \in Threads
      PROVE  ThreadInv(u)'
  BY DEF ListenerAborted, TypeOK, LifeInv, LockInv, ThreadInv, InNative, Destroying,
         Blocking
<1>5. QED
  BY <1>1, <1>2, <1>3, <1>4

(* A step that leaves every variable alone. *)
LEMMA StutterInv ==
    ASSUME Inv, UNCHANGED vars
    PROVE  Inv'
<1> USE DEF vars, lockVars, nativeVars, Inv
<1>1. TypeOK'
  BY DEF TypeOK
<1>2. LifeInv'
  BY DEF LifeInv
<1>3. LockInv'
  BY DEF LockInv
<1>4. ASSUME NEW u \in Threads
      PROVE  ThreadInv(u)'
  BY DEF ThreadInv, InNative, Destroying
<1>5. QED
  BY <1>1, <1>2, <1>3, <1>4

(* Every step of an application thread, of the transfer threads and of the *)
(* progress reporter.                                                      *)
LEMMA NextInv ==
    ASSUME Inv, [Next]_vars
    PROVE  Inv'
<1>1. CASE \E t \in Threads : Step(t)
  BY <1>1, WithHandleInv, InitTransferInv, BeginInv, FinishBeginsInv, JoinThreadsInv,
     JoinReporterInv, AbortLocksInv, AbortSetsInv, CloseLocksInv, DeleteInv DEF Step
<1>2. CASE \E t \in Threads, o \in Operations : Call(t, o)
  BY <1>2, CallInv
<1>3. CASE WorkersEnd \/ ReporterStep
  BY <1>3, WorkersEndInv, ReportInv, ListenerReturnsInv, ListenerAbortsInv, ListenerAbortedInv
     DEF ReporterStep
<1>4. CASE UNCHANGED vars
  BY <1>4, StutterInv
<1>5. QED
  BY <1>1, <1>2, <1>3, <1>4 DEF Next

(* The life of the native object, its locks and its threads are as Inv     *)
(* says in every reachable state.                                          *)
THEOREM Invariance == Spec => []Inv
<1>1. Init => Inv
  BY InitInv
<1>2. Inv /\ [Next]_vars => Inv'
  BY NextInv
<1>3. QED
  BY <1>1, <1>2, PTL DEF Spec

-----------------------------------------------------------------------------
(* Whichever threads call close(), abort() and the blocking functions, and *)
(* in whatever order: when the native object has been deleted nobody is in *)
(* its code and its own threads are gone.  A thread in native code holds   *)
(* the read lock and has seen the handle; the destructor holds the write   *)
(* lock, and comes to its end only after both joins.                       *)
THEOREM NativeObjectOutlivesUse == Spec => []NoUseAfterFree
<1>1. Inv => NoUseAfterFree
  BY DEF Inv, TypeOK, LifeInv, ThreadInv, NoUseAfterFree, InNative
<1>2. QED
  BY <1>1, Invariance, PTL

(* The listener is told of the end at most once, by the finish() that      *)
(* joined the progress thread, and hears nothing afterwards: the other     *)
(* calls of finish() find the threads joined.                              *)
THEOREM ListenerHearsOneEnd == Spec => []EndIsLast
<1>1. Inv => EndIsLast
  BY DEF Inv, LifeInv, EndIsLast
<1>2. QED
  BY <1>1, Invariance, PTL

(* An abort() that returned has reached a running transfer: it set the     *)
(* flag itself, or it found the write lock taken by a close() that had     *)
(* done so.                                                                *)
THEOREM AbortReaches == Spec => []AbortTakesEffect
<1>1. Inv => AbortTakesEffect
  BY DEF Inv, TypeOK, LifeInv, LockInv, AbortTakesEffect
<1>2. QED
  BY <1>1, Invariance, PTL
=============================================================================

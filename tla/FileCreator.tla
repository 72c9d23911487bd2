---------------------------- MODULE FileCreator ----------------------------
(***************************************************************************)
(* FileCreator and FileWriter: the receiver threads of a session create,   *)
(* size, open and write the files of the sender.  The first thread to meet *)
(* a file allocates it; the others wait for it on that thread's condition  *)
(* variable.  Directories are made on demand, remembered in a cache that   *)
(* can go stale, and made again by force when it did.                      *)
(***************************************************************************)
EXTENDS Naturals, Sequences, FiniteSets

CONSTANTS
    Threads,
    Files,
    DirOf,          \* the directory of each file: a sequence of names
    Trees,          \* what a sender may send: functions from files to sizes
    BlockSize,
    Resumption,     \* enable_download_resumption
    Overwrite,      \* overwrite
    Preallocate,    \* shouldPreallocateFiles
    DeleteExtra,    \* delete_extra_files
    MaxSessions, MaxFaults, MaxRemovals     \* bounds

VARIABLES
    disk,           \* the files: whether they are there, their size, and the
                    \* bytes of this session's sender that they hold
    dirs,           \* the directories that exist
    createdDirs,    \* createdDirs_
    fileStatusMap,  \* fileStatusMap_: ALLOCATED, FAILED or a thread
    mutex,          \* the thread that holds allocationMutex_
    pc,             \* where each thread is
    blk,            \* its blockDetails
    path,           \* its place in createDirRecursively: depth, force, and
                    \* whether createFile has failed to open the file once
    on,             \* the thread whose condition variable it waits for
    fd,             \* whether openForFirstBlock has a descriptor
    tree,           \* what the sender of the session has
    todo,           \* the blocks it has yet to send
    written,        \* the blocks that were written and closed
    session, faults, removals

fsVars == <<disk, dirs, createdDirs>>
boundVars == <<session, faults, removals>>
senderVars == <<tree, todo>>
vars == <<fsVars, fileStatusMap, mutex, pc, blk, path, on, fd, senderVars,
          written, boundVars>>

-----------------------------------------------------------------------------
Nobody == "nobody"
NoBlock == [name |-> "none", seqId |-> 0, status |-> "none", fileSize |-> 0,
            off |-> 0, len |-> 0]
NoPath == [depth |-> 0, force |-> FALSE, retry |-> FALSE]
Absent == [there |-> FALSE, size |-> 0, bytes |-> {}]

Bytes(b) == b.off .. b.off + b.len - 1
Prefix(b, n) == SubSeq(DirOf[b.name], 1, n)
Depth(b) == Len(DirOf[b.name])

(* The blocks of a file; an empty file has one, empty, block. *)
Offsets(size) == {o \in 0 .. size : o % BlockSize = 0 /\ (o < size \/ o = 0)}
LenAt(size, o) == IF size - o < BlockSize THEN size - o ELSE BlockSize

(* FileAllocationStatus, as the sender derives it from what it was told.   *)
Status(f, size, known) ==
    CASE f \notin known -> "NOT_EXISTS"
      [] disk[f].size > size -> "EXISTS_TOO_LARGE"
      [] disk[f].size < size -> "EXISTS_TOO_SMALL"
      [] OTHER -> "EXISTS_CORRECT_SIZE"

Plan(files, known, ids) ==
    UNION {{[name |-> f, seqId |-> ids[f], status |-> Status(f, files[f], known),
             fileSize |-> files[f], off |-> o, len |-> LenAt(files[f], o)]
            : o \in Offsets(files[f])} : f \in DOMAIN files}
    \cup {[name |-> f, seqId |-> ids[f], status |-> "TO_BE_DELETED",
           fileSize |-> 0, off |-> 0, len |-> 0]
          : f \in IF DeleteExtra THEN known \ DOMAIN files ELSE {}}

Init ==
    /\ disk = [f \in Files |-> Absent]
    /\ dirs = {} /\ createdDirs = {}
    /\ fileStatusMap = <<>> /\ mutex = Nobody
    /\ pc = [t \in Threads |-> "idle"]
    /\ blk = [t \in Threads |-> NoBlock]
    /\ path = [t \in Threads |-> NoPath]
    /\ on = [t \in Threads |-> Nobody]
    /\ fd = [t \in Threads |-> FALSE]
    /\ tree = <<>> /\ todo = {} /\ written = {}
    /\ session = 0 /\ faults = 0 /\ removals = 0

-----------------------------------------------------------------------------
(* Sessions.  The sequence ids of a session start anew; a sender that was  *)
(* told of files of an earlier session numbers the others after them.      *)

Over == \A t \in Threads : pc[t] \in {"idle", "error"}

ClearAllocationMap == fileStatusMap' = <<>>

StartSession ==
    /\ Over
    /\ todo = {} \/ \E t \in Threads : pc[t] = "error"
    /\ session < MaxSessions
    /\ \E files \in Trees, ids \in [Files -> 0 .. Cardinality(Files) - 1] :
       \E known \in IF Resumption THEN SUBSET {f \in Files : disk[f].there}
                                  ELSE {{}} :
          /\ \A f, g \in Files : ids[f] = ids[g] => f = g
          /\ tree' = files
          /\ todo' = Plan(files, known, ids)
    /\ session' = session + 1
    /\ disk' = [f \in Files |-> [there |-> disk[f].there, size |-> disk[f].size,
                                 bytes |-> {}]]
    /\ pc' = [t \in Threads |-> "idle"]
    /\ written' = {}
    /\ ClearAllocationMap
    /\ UNCHANGED <<dirs, createdDirs, mutex, blk, path, on, fd, faults, removals>>

Fault ==
    /\ faults < MaxFaults
    /\ faults' = faults + 1

Goto(t, where) == pc' = [pc EXCEPT ![t] = where]

(* processFileCmd has a header and calls FileWriter::open. *)
ProcessFileCmd(t) ==
    /\ pc[t] = "idle"
    /\ \E b \in todo :
          /\ blk' = [blk EXCEPT ![t] = b]
          /\ todo' = todo \ {b}
    /\ Goto(t, "open")
    /\ UNCHANGED <<fsVars, fileStatusMap, mutex, path, on, fd, tree, written,
                   boundVars>>

-----------------------------------------------------------------------------
(* openForBlocks *)

(* A failing unlink is only logged. *)
Unlink(t) ==
    /\ pc[t] = "open" /\ blk[t].status = "TO_BE_DELETED"
    /\ \/ disk' = [disk EXCEPT ![blk[t].name] = Absent] /\ UNCHANGED faults
       \/ Fault /\ UNCHANGED disk
    /\ Goto(t, "idle")
    /\ UNCHANGED <<dirs, createdDirs, fileStatusMap, mutex, blk, path, on, fd,
                   senderVars, written, session, removals>>

StatusOf(id) == fileStatusMap[id]
Record(id, s) ==
    fileStatusMap' = [i \in DOMAIN fileStatusMap \cup {id} |->
                         IF i = id THEN s ELSE fileStatusMap[i]]

InProgress_Ignored(s) == FALSE

InProgress(s) == s \notin {"ALLOCATED", "FAILED"}

(* The critical section of lock_. *)
OpenForBlocks(t) ==
    LET b == blk[t]
        first == b.seqId \notin DOMAIN fileStatusMap
    IN  /\ pc[t] = "open" /\ b.status # "TO_BE_DELETED"
        /\ \/ /\ first /\ b.status = "EXISTS_CORRECT_SIZE"
              /\ Record(b.seqId, "ALLOCATED")
              /\ Goto(t, "existing")
              /\ UNCHANGED <<path, on>>
           \/ /\ first /\ b.status = "NOT_EXISTS"
              /\ Record(b.seqId, t)
              /\ Goto(t, "lookup")
              /\ path' = [path EXCEPT ![t] = [depth |-> Depth(b), force |-> FALSE,
                                              retry |-> FALSE]]
              /\ UNCHANGED on
           \/ /\ first /\ b.status \in {"EXISTS_TOO_LARGE", "EXISTS_TOO_SMALL"}
              /\ Record(b.seqId, t)
              /\ Goto(t, "openFirst")
              /\ UNCHANGED <<path, on>>
           \/ /\ ~first /\ InProgress(StatusOf(b.seqId))
              /\ Goto(t, "check")
              /\ on' = [on EXCEPT ![t] = StatusOf(b.seqId)]
              /\ UNCHANGED <<path, fileStatusMap>>
           \/ /\ ~first /\ ~InProgress(StatusOf(b.seqId))
              /\ Goto(t, IF StatusOf(b.seqId) = "FAILED" THEN "error" ELSE "existing")
              /\ UNCHANGED <<path, on, fileStatusMap>>
        /\ UNCHANGED <<fsVars, mutex, blk, fd, senderVars, written, boundVars>>

(* waitForAllocationFinish: the status is read under allocationMutex_,     *)
(* which wait() gives back.                                                *)
CheckAllocation(t) ==
    /\ pc[t] = "check" /\ mutex = Nobody
    /\ \/ /\ StatusOf(blk[t].seqId) = "ALLOCATED"
          /\ Goto(t, "existing") /\ UNCHANGED mutex
       \/ /\ StatusOf(blk[t].seqId) = "FAILED"
          /\ Goto(t, "error") /\ UNCHANGED mutex
       \/ /\ InProgress(StatusOf(blk[t].seqId))
          /\ Goto(t, "wait") /\ mutex' = t
    /\ UNCHANGED <<fsVars, fileStatusMap, blk, path, on, fd, senderVars, written,
                   boundVars>>

Wait(t) ==
    /\ pc[t] = "wait"
    /\ mutex' = Nobody
    /\ Goto(t, "waiting")
    /\ UNCHANGED <<fsVars, fileStatusMap, blk, path, on, fd, senderVars, written,
                   boundVars>>

(* openExistingFile, for a file that is allocated; nobody removes it. *)
OpenExistingFile(t) ==
    /\ pc[t] = "existing"
    /\ \/ disk[blk[t].name].there /\ Goto(t, "write") /\ UNCHANGED faults
       \/ Fault /\ Goto(t, "error")
    /\ UNCHANGED <<fsVars, fileStatusMap, mutex, blk, path, on, fd, senderVars,
                   written, session, removals>>

-----------------------------------------------------------------------------
(* openAndSetSize, by the thread that meets the file first *)

(* openForFirstBlock goes on without a descriptor. *)
Fails(t) ==
    /\ fd' = [fd EXCEPT ![t] = FALSE]
    /\ Goto(t, "setStatus")

(* createDirRecursively goes up to a directory in the cache ... *)
LookUp(t) ==
    /\ pc[t] = "lookup"
    /\ LET d == path[t].depth IN
       \/ /\ d = 0 \/ Prefix(blk[t], d) \in createdDirs
          /\ Goto(t, "mkdir") /\ UNCHANGED path
       \/ /\ d > 0 /\ Prefix(blk[t], d) \notin createdDirs
          /\ path' = [path EXCEPT ![t].depth = d - 1] /\ UNCHANGED pc
    /\ UNCHANGED <<fsVars, fileStatusMap, mutex, blk, on, fd, senderVars, written,
                   boundVars>>

(* With force nothing is looked up. *)
Force(t, again) ==
    /\ path' = [path EXCEPT ![t] = [depth |-> 0, force |-> TRUE, retry |-> again]]
    /\ UNCHANGED <<pc, fd>>

Made(b, d) == d = 0 \/ Prefix(b, d) \in dirs

(* ... and makes the ones below it.  A directory that is already there is  *)
(* as good as made.                                                        *)
MakeDir(t) ==
    LET b == blk[t]
        d == path[t].depth
    IN  /\ pc[t] = "mkdir" /\ d < Depth(b)
        /\ \/ /\ Made(b, d)
              /\ dirs' = dirs \cup {Prefix(b, d + 1)}
              /\ createdDirs' = createdDirs \cup {Prefix(b, d + 1)}
              /\ path' = [path EXCEPT ![t].depth = d + 1]
              /\ UNCHANGED <<pc, fd, faults>>
           \/ /\ (~Made(b, d) /\ UNCHANGED faults) \/ Fault
              /\ IF path[t].force THEN Fails(t) /\ UNCHANGED path
                                  ELSE Force(t, FALSE)
              /\ UNCHANGED <<dirs, createdDirs>>
        /\ UNCHANGED <<disk, fileStatusMap, mutex, blk, on, senderVars, written,
                       session, removals>>

(* open() fails: once more after making the directories by force. *)
CreateFails_NoRetry(t) == Fails(t) /\ UNCHANGED path

CreateFails(t) ==
    IF Depth(blk[t]) = 0 \/ path[t].retry
    THEN Fails(t) /\ UNCHANGED path
    ELSE Force(t, TRUE)

CreateFile(t) ==
    LET b == blk[t]
        possible == /\ Made(b, Depth(b))
                    /\ Overwrite \/ Resumption \/ ~disk[b.name].there
    IN  /\ pc[t] = "mkdir" /\ path[t].depth = Depth(b)
        /\ \/ /\ possible
              /\ disk' = [disk EXCEPT ![b.name] =
                             [there |-> TRUE, size |-> 0, bytes |-> {}]]
              /\ Goto(t, "setSize")
              /\ UNCHANGED <<path, fd, faults>>
           \/ /\ (~possible /\ UNCHANGED faults) \/ Fault
              /\ CreateFails(t)
              /\ UNCHANGED disk
        /\ UNCHANGED <<dirs, createdDirs, fileStatusMap, mutex, blk, on,
                       senderVars, written, session, removals>>

OpenFirst(t) ==
    /\ pc[t] = "openFirst"
    /\ \/ disk[blk[t].name].there /\ Goto(t, "setSize") /\ UNCHANGED <<fd, faults>>
       \/ Fault /\ Fails(t)
    /\ UNCHANGED <<fsVars, fileStatusMap, mutex, blk, path, on, senderVars,
                   written, session, removals>>

(* A file that is too large is cut, to nothing when it is not going to be  *)
(* allocated; posix_fallocate makes it large enough.                       *)
CutSize(size, want) ==
    IF size <= want THEN size ELSE IF Preallocate THEN want ELSE 0

AllocatedSize_Grows(size, want) == IF size <= want THEN want ELSE size

AllocatedSize(size, want) ==
    IF Preallocate THEN want ELSE CutSize(size, want)

SetFileSize(t) ==
    LET f == blk[t].name
        want == blk[t].fileSize
    IN  /\ pc[t] = "setSize"
        /\ \/ /\ disk' = [disk EXCEPT ![f] =
                     [there |-> disk[f].there,
                      size |-> AllocatedSize(disk[f].size, want),
                      bytes |-> {i \in disk[f].bytes : i < CutSize(disk[f].size, want)}]]
              /\ fd' = [fd EXCEPT ![t] = TRUE]
              /\ Goto(t, "setStatus")
              /\ UNCHANGED faults
           \/ Fault /\ Fails(t) /\ UNCHANGED disk
        /\ UNCHANGED <<dirs, createdDirs, fileStatusMap, mutex, blk, path, on,
                       senderVars, written, session, removals>>

SetStatus(t) ==
    /\ pc[t] = "setStatus"
    /\ Record(blk[t].seqId, IF fd[t] THEN "ALLOCATED" ELSE "FAILED")
    /\ Goto(t, "notify")
    /\ UNCHANGED <<fsVars, mutex, blk, path, on, fd, senderVars, written, boundVars>>

Wakes(t, u) == pc[u] = "waiting" /\ on[u] = t

MayNotify(t) == pc[t] = "notify" /\ mutex = Nobody

NotifyAll(t) ==
    /\ MayNotify(t)
    /\ pc' = [u \in Threads |->
                 IF u = t THEN IF fd[t] THEN "write" ELSE "error"
                 ELSE IF Wakes(t, u) THEN "check" ELSE pc[u]]
    /\ UNCHANGED <<fsVars, fileStatusMap, mutex, blk, path, on, fd, senderVars,
                   written, boundVars>>

-----------------------------------------------------------------------------
(* FileWriter *)

(* The block is written at its offset; what is written past the end makes  *)
(* the file longer.                                                        *)
Write(t) ==
    LET b == blk[t] IN
    /\ pc[t] = "write"
    /\ \/ /\ disk' = [disk EXCEPT ![b.name] =
                 [there |-> disk[b.name].there,
                  size |-> IF b.len > 0 /\ b.off + b.len > disk[b.name].size
                           THEN b.off + b.len ELSE disk[b.name].size,
                  bytes |-> disk[b.name].bytes \cup Bytes(b)]]
          /\ Goto(t, "sync")
          /\ UNCHANGED faults
       \/ Fault /\ Goto(t, "error") /\ UNCHANGED disk
    /\ UNCHANGED <<dirs, createdDirs, fileStatusMap, mutex, blk, path, on, fd,
                   senderVars, written, session, removals>>

(* sync() and close(): an error of either ends the thread. *)
SyncAndClose(t) ==
    /\ pc[t] = "sync"
    /\ \/ written' = written \cup {blk[t]} /\ Goto(t, "idle") /\ UNCHANGED faults
       \/ Fault /\ Goto(t, "error") /\ UNCHANGED written
    /\ UNCHANGED <<fsVars, fileStatusMap, mutex, blk, path, on, fd, senderVars,
                   session, removals>>

(* Somebody else removes a directory nothing is in. *)
RemoveEmptyDir ==
    /\ removals < MaxRemovals
    /\ removals' = removals + 1
    /\ \E d \in dirs :
          /\ \A f \in Files : disk[f].there => DirOf[f] # d
          /\ \A e \in dirs : Len(e) > Len(d) => SubSeq(e, 1, Len(d)) # d
          /\ dirs' = dirs \ {d}
    /\ UNCHANGED <<disk, createdDirs, fileStatusMap, mutex, pc, blk, path, on, fd,
                   senderVars, written, session, faults>>

-----------------------------------------------------------------------------
Allocate(t) ==
    LookUp(t) \/ MakeDir(t) \/ CreateFile(t) \/ OpenFirst(t) \/ SetFileSize(t)
        \/ SetStatus(t) \/ NotifyAll(t)

Step(t) ==
    Unlink(t) \/ OpenForBlocks(t) \/ CheckAllocation(t) \/ Wait(t)
        \/ OpenExistingFile(t) \/ Allocate(t) \/ Write(t) \/ SyncAndClose(t)

Next ==
    \/ StartSession \/ RemoveEmptyDir
    \/ \E t \in Threads : ProcessFileCmd(t) \/ Step(t)

Spec == Init /\ [][Next]_vars

(* A thread that has a block goes on with it. *)
FairSpec == Spec /\ \A t \in Threads : WF_vars(Step(t))

-----------------------------------------------------------------------------
(* The places where a thread is allocating its file. *)
Allocating == {"lookup", "mkdir", "openFirst", "setSize", "setStatus"}

(* openForBlocks: what a thread wrote to a file stays there for the rest   *)
(* of the session, although other threads open, create, cut and allocate   *)
(* the same file.                                                          *)
BlocksSurvive ==
    \A b \in written : disk[b.name].there /\ Bytes(b) \subseteq disk[b.name].bytes

(* When every block has been written the files are those of the sender:    *)
(* no byte missing, and no byte of a longer file of an earlier session.    *)
SuccessLeavesFiles ==
    todo = {} /\ (\A t \in Threads : pc[t] = "idle") =>
        \A f \in DOMAIN tree : disk[f] = [there |-> TRUE, size |-> tree[f],
                                         bytes |-> 0 .. tree[f] - 1]

(* createFile: "if an open fails where we assumed the directory already    *)
(* exists based on cache, we try creating the dir and open again before    *)
(* failing".  A directory that goes away once, at whatever moment, makes   *)
(* no thread fail.                                                         *)
NoThreadFails == \A t \in Threads : pc[t] # "error"

(* waitForAllocationFinish: a thread that waits for another's allocation   *)
(* is woken, whether the allocation succeeds or fails.                     *)
WaitersWake ==
    \A t \in Threads : pc[t] = "waiting" ~> pc[t] \in {"write", "error"}
=============================================================================

----------------------------- MODULE MCStorage -----------------------------
(***************************************************************************)
(* What the receiver keeps on disk, for TLC: TransferLog, FileCreator and  *)
(* the lists of chunks.  One behaviour is about one of them in one         *)
(* setting, which the variable part names; the others rest in their        *)
(* initial state.                                                          *)
(*   machine, restart, compaction, deletes, sizes, sizes_blocks            *)
(*                        TransferLog                                      *)
(*   resume, again, dirs  FileCreator                                      *)
(*   chunks               MCFileChunks                                     *)
(***************************************************************************)
EXTENDS TLC, Sequences, Naturals

CONSTANTS fa, fb, t0, t1, t2, t3

VARIABLES part,
          \* TransferLog
          disk, durable, log, synced, session, crashes, writeErrors, up, m, claims, sender,
          todo, funnel, allocated, job, abandoned,
          \* FileCreator
          cDisk, dirs, createdDirs, fileStatusMap, mutex, pc, blk, path, on, fd, tree, cTodo,
          written, cSession, faults, removals,
          \* MCFileChunks
          chunks

One == {t0}
Two == {t1, t2}
Three == {t1, t2, t3}

(* A file that grows and shrinks, two files, and one that comes and goes. *)
Changing == {fa :> 3, fa :> 4}
Both == {(fa :> 2) @@ (fb :> 1)}
Leaving == Both \cup {fa :> 2}

Resuming == {"resuming"}
AnySender == {"resuming", "plain"}

(* The machine stops, and what was not synchronised is lost. *)
Machine == INSTANCE TransferLog WITH
    Files <- {fa}, Versions <- Changing, BlockSize <- 2, Threads <- One, Preallocate <- TRUE,
    DirTree <- FALSE, DeleteExtra <- FALSE, Compaction <- FALSE, Senders <- Resuming,
    Peers <- {"ip1"}, Recoveries <- {1}, MaxSessions <- 4, MaxCrashes <- 2,
    MaxWriteErrors <- 0, MachineCrashes <- TRUE

(* The process stops, or a write to the log fails, with two threads at work. *)
Restart == INSTANCE TransferLog WITH
    Files <- {fa}, Versions <- Changing, BlockSize <- 2, Threads <- Two, Preallocate <- TRUE,
    DirTree <- FALSE, DeleteExtra <- FALSE, Compaction <- FALSE, Senders <- Resuming,
    Peers <- {"ip1"}, Recoveries <- {1}, MaxSessions <- 3, MaxCrashes <- 1,
    MaxWriteErrors <- 1, MachineCrashes <- FALSE

(* The log is compacted; the sender and the recovery id change. *)
Compacting == INSTANCE TransferLog WITH
    Files <- {fa, fb}, Versions <- Both, BlockSize <- 2, Threads <- One, Preallocate <- TRUE,
    DirTree <- FALSE, DeleteExtra <- FALSE, Compaction <- TRUE, Senders <- Resuming,
    Peers <- {"ip1", "ip2"}, Recoveries <- {1, 2}, MaxSessions <- 3, MaxCrashes <- 1,
    MaxWriteErrors <- 0, MachineCrashes <- FALSE

(* The sender has extra files deleted. *)
Deletes == INSTANCE TransferLog WITH
    Files <- {fa, fb}, Versions <- Leaving, BlockSize <- 2, Threads <- One, Preallocate <- TRUE,
    DirTree <- FALSE, DeleteExtra <- TRUE, Compaction <- FALSE, Senders <- Resuming,
    Peers <- {"ip1"}, Recoveries <- {1}, MaxSessions <- 3, MaxCrashes <- 2,
    MaxWriteErrors <- 0, MachineCrashes <- FALSE

(* Resumption by the sizes of the files, of whole files and of blocks. *)
Sizes == INSTANCE TransferLog WITH
    Files <- {fa}, Versions <- Changing, BlockSize <- 0, Threads <- One, Preallocate <- FALSE,
    DirTree <- TRUE, DeleteExtra <- FALSE, Compaction <- FALSE, Senders <- AnySender,
    Peers <- {"ip1"}, Recoveries <- {1, 2}, MaxSessions <- 3, MaxCrashes <- 2,
    MaxWriteErrors <- 0, MachineCrashes <- FALSE
SizesBlocks == INSTANCE TransferLog WITH
    Files <- {fa}, Versions <- Changing, BlockSize <- 2, Threads <- One, Preallocate <- FALSE,
    DirTree <- TRUE, DeleteExtra <- FALSE, Compaction <- FALSE, Senders <- AnySender,
    Peers <- {"ip1"}, Recoveries <- {1}, MaxSessions <- 3, MaxCrashes <- 2,
    MaxWriteErrors <- 0, MachineCrashes <- FALSE

Flat == (fa :> <<>>) @@ (fb :> <<"d">>)
Nested == (fa :> <<"d", "e">>) @@ (fb :> <<"d">>)
Trees == {(fa :> 3) @@ (fb :> 1), fa :> 2}
OneTree == {(fa :> 3) @@ (fb :> 1)}

(* A download that is resumed, and one over the files of an earlier one. *)
Resumed == INSTANCE FileCreator WITH
    Threads <- Two, Files <- {fa, fb}, DirOf <- Flat, Trees <- Trees, BlockSize <- 2,
    Resumption <- TRUE, Overwrite <- FALSE, Preallocate <- FALSE, DeleteExtra <- TRUE,
    MaxSessions <- 2, MaxFaults <- 1, MaxRemovals <- 0,
    disk <- cDisk, todo <- cTodo, session <- cSession
Again == INSTANCE FileCreator WITH
    Threads <- Two, Files <- {fa, fb}, DirOf <- Flat, Trees <- Trees, BlockSize <- 2,
    Resumption <- FALSE, Overwrite <- TRUE, Preallocate <- TRUE, DeleteExtra <- FALSE,
    MaxSessions <- 2, MaxFaults <- 1, MaxRemovals <- 0,
    disk <- cDisk, todo <- cTodo, session <- cSession

(* Nested directories, which go away twice. *)
Dirs == INSTANCE FileCreator WITH
    Threads <- Three, Files <- {fa, fb}, DirOf <- Nested, Trees <- OneTree, BlockSize <- 2,
    Resumption <- FALSE, Overwrite <- FALSE, Preallocate <- TRUE, DeleteExtra <- FALSE,
    MaxSessions <- 1, MaxFaults <- 0, MaxRemovals <- 2,
    disk <- cDisk, todo <- cTodo, session <- cSession

Chunks == INSTANCE MCFileChunks WITH MaxSize <- 5, MaxChunks <- 3

logVars == <<disk, durable, log, synced, session, crashes, writeErrors, up, m, claims, sender,
             todo, funnel, allocated, job, abandoned>>
creatorVars == <<cDisk, dirs, createdDirs, fileStatusMap, mutex, pc, blk, path, on, fd, tree,
                 cTodo, written, cSession, faults, removals>>

LogParts == {"machine", "restart", "compaction", "deletes", "sizes", "sizes_blocks"}
CreatorParts == {"resume", "again", "dirs"}

LogInit ==
    CASE part = "restart" -> Restart!Init
      [] part \in {"compaction", "deletes"} -> Deletes!Init
      [] OTHER -> Machine!Init

Init ==
    /\ part \in LogParts \cup CreatorParts \cup {"chunks"}
    /\ LogInit
    /\ IF part = "dirs" THEN Dirs!Init ELSE Resumed!Init
    /\ Chunks!Init

vars == <<part, logVars, creatorVars, chunks>>

Log ==
    /\ \/ part = "machine" /\ Machine!Next
       \/ part = "restart" /\ Restart!Next
       \/ part = "compaction" /\ Compacting!Next
       \/ part = "deletes" /\ Deletes!Next
       \/ part = "sizes" /\ Sizes!Next
       \/ part = "sizes_blocks" /\ SizesBlocks!Next
    /\ UNCHANGED <<part, creatorVars, chunks>>

Creator ==
    /\ \/ part = "resume" /\ Resumed!Next
       \/ part = "again" /\ Again!Next
       \/ part = "dirs" /\ Dirs!Next
    /\ UNCHANGED <<part, logVars, chunks>>

ChunkList == part = "chunks" /\ Chunks!Next /\ UNCHANGED <<part, logVars, creatorVars>>

Next == Log \/ Creator \/ ChunkList

Spec == Init /\ [][Next]_vars

ThreadSymmetry == Permutations(Three)

-----------------------------------------------------------------------------
(***************************************************************************)
(* TransferLogManager, parseAndMatch: a receiver that comes up after two   *)
(* crashes of the process or of the machine, after a write error, over a   *)
(* compacted log, or with the sizes of the files alone, tells the sender   *)
(* to leave out only bytes that are in the file, although files are cut to *)
(* nothing when they are created (createFile).  The exception is a log     *)
(* that a receiver before it found invalid (Revived).                      *)
(***************************************************************************)
ClaimsOnDisk ==
    CASE part = "machine" -> Machine!ClaimsOnDisk
      [] part = "restart" -> Restart!ClaimsOnDisk
      [] part = "compaction" -> Compacting!ClaimsOnDisk
      [] part = "deletes" -> Deletes!ClaimsOnDisk
      [] part = "sizes_blocks" -> SizesBlocks!ClaimsOnDisk
      [] OTHER -> TRUE

(***************************************************************************)
(* LogParser::parseLog: a restart finds a valid log or an invalidated      *)
(* directory, never one that makes no sense to the parser, when the last   *)
(* write was cut off by a crash of the process or by an error, when a      *)
(* process stopped during compaction, or when files were deleted.          *)
(***************************************************************************)
LogStaysValid ==
    CASE part = "restart" -> Restart!LogStaysValid
      [] part = "compaction" -> Compacting!LogStaysValid
      [] part = "deletes" -> Deletes!LogStaysValid
      [] OTHER -> TRUE

(***************************************************************************)
(* FileCreator, openForBlocks: what a thread wrote to a file stays there   *)
(* for the rest of the session, although other threads open, create, cut   *)
(* and allocate the same file.                                             *)
(***************************************************************************)
BlocksSurvive ==
    CASE part = "resume" -> Resumed!BlocksSurvive
      [] part = "again" -> Again!BlocksSurvive
      [] OTHER -> TRUE

(***************************************************************************)
(* When every block has been written the files are those of the sender,    *)
(* with all their bytes and without one of a longer file of an earlier     *)
(* session, after up to four sessions and two crashes of which none left a *)
(* log that is Revived.                                                    *)
(***************************************************************************)
SuccessLeavesFiles ==
    CASE part = "machine" -> Machine!SuccessLeavesFiles
      [] part = "sizes" -> Sizes!SuccessLeavesFiles
      [] part = "resume" -> Resumed!SuccessLeavesFiles
      [] part = "again" -> Again!SuccessLeavesFiles
      [] OTHER -> TRUE

(* FileCreator, createFile: a directory that goes away once, at whatever   *)
(* moment, makes no thread fail.                                           *)
NoThreadFails == part = "dirs" /\ removals <= 1 => Dirs!NoThreadFails

(***************************************************************************)
(* FileChunksInfo: a merged list has the same bytes, and no two of its     *)
(* chunks touch (mergeChunks); a resumed transfer sends exactly the bytes  *)
(* the receiver lacks (getRemainingChunks); and the blocks cut from them   *)
(* tile them, for every block size (createIntoQueueInternal).              *)
(***************************************************************************)
ChunksExact ==
    part = "chunks" =>
        Chunks!MergeIsExact /\ Chunks!RemainingIsMissing /\ Chunks!BlocksTile
=============================================================================

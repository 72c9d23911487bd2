---------------------------- MODULE TransferLog ----------------------------
(***************************************************************************)
(* Download resumption: the transfer log of TransferLogManager, the files  *)
(* the receiver threads write, and what survives when the process or the   *)
(* machine stops.  One receiver after another (a session each) works on    *)
(* the same directory; a session begins by parsing the log, and the sender *)
(* of the session sends what the parsed chunks leave out.                  *)
(***************************************************************************)
EXTENDS FileChunks, FiniteSets

CONSTANTS
    Files,
    Versions,       \* the directories a sender may have: functions from some
                    \* files to sizes
    BlockSize,
    Threads,
    Preallocate,    \* shouldPreallocateFiles
    DirTree,        \* resume_using_dir_tree
    DeleteExtra,    \* the sender's delete_extra_files
    Compaction,     \* enable_transfer_log_compaction
    Senders,        \* subset of {"resuming", "plain"}
    Peers,          \* the addresses senders come from
    Recoveries,     \* the recovery ids receivers are started with
    MaxSessions, MaxCrashes, MaxWriteErrors,    \* bounds
    MachineCrashes  \* the machine may stop, not only the process

VARIABLES
    disk,       \* the files as the receiver sees them: whether they are there,
                \* their size, and the bytes that were really written
    durable,    \* the files as they are on the medium
    log,        \* the entries of .wdt.log
    synced,     \* how many of them are on the medium
    session,    \* how many receivers were started
    crashes, writeErrors,
    up,         \* "down", "ready" (log parsed), "running" (first connection)
    m,          \* TransferLogManager: its members
    claims,     \* fileChunksInfo_, by sequence id
    sender,     \* the sender of this session: its kind and its files
    todo,       \* the blocks it still has to send
    funnel,     \* SEND_FILE_CHUNKS_FUNNEL
    allocated,  \* FileCreator: the sequence ids whose file is allocated
    job,        \* what each receiver thread is doing
    abandoned   \* a receiver has worked here without the log, which it found
                \* invalid, closed and left where it was

diskVars == <<disk, durable>>
logVars == <<log, synced>>
boundVars == <<session, crashes, writeErrors>>
sessionVars == <<sender, todo, funnel, allocated, job>>
vars == <<diskVars, logVars, boundVars, up, m, claims, sessionVars, abandoned>>

-----------------------------------------------------------------------------
(* Log entries.  A torn entry is one of which only a part was written. *)

Header(ip, recovery) == [type |-> "HEADER", ip |-> ip, recovery |-> recovery]
FileCreation(f, id, size) ==
    [type |-> "FILE_CREATION", name |-> f, seqId |-> id, size |-> size]
BlockWrite(id, off, size) ==
    [type |-> "BLOCK_WRITE", seqId |-> id, off |-> off, size |-> size]
FileResize(id, size) == [type |-> "FILE_RESIZE", seqId |-> id, size |-> size]
FileInvalidation(id) == [type |-> "FILE_INVALIDATION", seqId |-> id]
DirectoryInvalidation == [type |-> "DIRECTORY_INVALIDATION"]
Torn == [type |-> "TORN"]

-----------------------------------------------------------------------------
(* LogParser *)

NoIp == "no ip"

NewParser == [status |-> "OK", headerParsed |-> FALSE, infos |-> <<>>,
              sizes |-> <<>>, invalid |-> {}, ip |-> NoIp]

Without(f, k) == [i \in DOMAIN f \ {k} |-> f[i]]
With(f, k, v) == [i \in DOMAIN f \cup {k} |-> IF i = k THEN v ELSE f[i]]

InvalidLog(p) == [p EXCEPT !.status = "INVALID_LOG"]

(* clearParsedData *)
Inconsistent(p) == [p EXCEPT !.status = "INCONSISTENT_DIRECTORY",
                             !.infos = <<>>, !.sizes = <<>>, !.invalid = {}]

ProcessHeaderEntry(p, e, recovery) ==
    IF e.recovery # recovery
    THEN Inconsistent([p EXCEPT !.ip = e.ip])
    ELSE [p EXCEPT !.status = "OK", !.headerParsed = TRUE, !.ip = e.ip]

(* The file must be there and, if files are preallocated, be large enough; *)
(* what it is recorded with is its size on the disk.  emplace keeps the    *)
(* size recorded for an earlier file with this id.                         *)
ProcessFileCreationEntry(p, e) ==
    CASE e.seqId \in DOMAIN p.infos \cup p.invalid -> InvalidLog(p)
      [] ~disk[e.name].there \/ (Preallocate /\ disk[e.name].size < e.size) ->
           [p EXCEPT !.invalid = @ \cup {e.seqId}]
      [] OTHER ->
           [p EXCEPT !.infos = With(@, e.seqId,
                                    [name |-> e.name, size |-> disk[e.name].size,
                                     chunks |-> <<>>]),
                     !.sizes = IF e.seqId \in DOMAIN @ THEN @
                                                       ELSE With(@, e.seqId, e.size)]

ProcessFileResizeEntry(p, e) ==
    CASE e.seqId \notin DOMAIN p.infos -> InvalidLog(p)
      [] e.size < p.sizes[e.seqId] -> InvalidLog(p)
      [] Preallocate /\ e.size > p.infos[e.seqId].size -> InvalidLog(p)
      [] OTHER -> [p EXCEPT !.sizes[e.seqId] = e.size]

ProcessBlockWriteEntry(p, e) ==
    CASE e.seqId \in p.invalid -> p
      [] e.seqId \notin DOMAIN p.infos -> InvalidLog(p)
      [] e.off + e.size > p.infos[e.seqId].size -> InvalidLog(p)
      [] OTHER -> [p EXCEPT !.infos[e.seqId].chunks =
                      Append(@, Interval(e.off, e.off + e.size))]

ProcessFileInvalidationEntry(p, e) ==
    IF e.seqId \notin DOMAIN p.infos \cup p.invalid
    THEN InvalidLog(p)
    ELSE [p EXCEPT !.infos = Without(@, e.seqId), !.invalid = @ \ {e.seqId}]

(* One round of parseLog.  A directory that was invalidated is validated   *)
(* again only by a header.                                                 *)
ParseEntry(p, e, recovery) ==
    CASE p.status = "INVALID_LOG" -> p
      [] e.type = "HEADER" -> ProcessHeaderEntry(p, e, recovery)
      [] p.status = "INCONSISTENT_DIRECTORY" -> p
      [] e.type = "DIRECTORY_INVALIDATION" ->
           Inconsistent([p EXCEPT !.headerParsed = FALSE])
      [] ~p.headerParsed \/ DirTree -> InvalidLog(p)
      [] e.type = "FILE_CREATION" -> ProcessFileCreationEntry(p, e)
      [] e.type = "BLOCK_WRITE" -> ProcessBlockWriteEntry(p, e)
      [] e.type = "FILE_RESIZE" -> ProcessFileResizeEntry(p, e)
      [] e.type = "FILE_INVALIDATION" -> ProcessFileInvalidationEntry(p, e)
      [] OTHER -> InvalidLog(p)

(* truncateExtraBytesAtEnd *)
WholeEntries_Kept(entries) == entries

WholeEntries(entries) ==
    IF entries # <<>> /\ Last(entries) = Torn THEN Front(entries) ELSE entries

ParseLog(entries, recovery) ==
    FoldLeft(LAMBDA p, e : ParseEntry(p, e, recovery), NewParser,
             WholeEntries(entries))

(* The end of parseLog: chunks merged, entries written for missing files.  *)
Parsed(p) ==
    IF p.status = "OK"
    THEN [i \in DOMAIN p.infos |-> [p.infos[i] EXCEPT !.chunks = MergeChunks(@)]]
    ELSE <<>>

FixedLog(entries, p) ==
    CASE p.status = "OK" ->
           WholeEntries(entries) \o
               [i \in 1 .. Cardinality(p.invalid) |->
                   FileInvalidation(SetToSortSeq(p.invalid, <)[i])]
      [] p.status = "INCONSISTENT_DIRECTORY" ->
           Append(WholeEntries(entries), DirectoryInvalidation)
      [] OTHER -> entries

-----------------------------------------------------------------------------
(* The sender's plan *)

Known == [f \in {claims[i].name : i \in DOMAIN claims} |->
            LET id == Min({i \in DOMAIN claims : claims[i].name = f})
            IN  [size |-> claims[id].size, chunks |-> claims[id].chunks,
                 seqId |-> id]]

Status(f, size, known) ==
    CASE f \notin DOMAIN known -> "NOT_EXISTS"
      [] known[f].size > size -> "EXISTS_TOO_LARGE"
      [] known[f].size < size -> "EXISTS_TOO_SMALL"
      [] OTHER -> "EXISTS_CORRECT_SIZE"

(* createIntoQueueInternal (see SourceQueue), with what goes into a header. *)
Plan(acc, f, files, known) ==
    LET status == Status(f, files[f], known)
        anew == status \in {"NOT_EXISTS", "EXISTS_TOO_LARGE"}
        parts == IF anew THEN <<Interval(0, files[f])>>
                         ELSE GetRemainingChunks(known[f].chunks, files[f])
        blocks == BlocksToSend(parts, files[f], BlockSize)
    IN  [next |-> IF anew THEN acc.next + 1 ELSE acc.next,
         blocks |-> acc.blocks \cup
            {[name |-> f, status |-> status, fileSize |-> files[f],
              seqId |-> IF anew THEN acc.next ELSE known[f].seqId,
              prevSeqId |-> IF status = "EXISTS_TOO_LARGE" THEN known[f].seqId
                                                           ELSE 0,
              off |-> blocks[i].off, size |-> blocks[i].size]
             : i \in DOMAIN blocks}]

Deletions(files, known) ==
    {[name |-> f, status |-> "TO_BE_DELETED", fileSize |-> 0,
      seqId |-> known[f].seqId, prevSeqId |-> 0, off |-> 0, size |-> 0]
     : f \in DOMAIN known \ DOMAIN files}

BlocksFor(files, known, firstId) ==
    FoldLeft(LAMBDA acc, f : Plan(acc, f, files, known),
             [next |-> firstId, blocks |-> {}], SetToSeq(DOMAIN files)).blocks
        \cup (IF DeleteExtra THEN Deletions(files, known) ELSE {})

-----------------------------------------------------------------------------
Absent == [there |-> FALSE, size |-> 0, good |-> {}]
NoManager == [fd |-> FALSE, status |-> "OK", headerWritten |-> FALSE,
              ip |-> NoIp, recovery |-> 0, entries |-> <<>>,
              writer |-> "none", batch |-> <<>>]
NoSender == [kind |-> "none", files |-> <<>>]
NoJob == [pc |-> "idle", first |-> TRUE, block |-> <<>>, done |-> 0]

Init ==
    /\ disk = [f \in Files |-> Absent]
    /\ durable = disk
    /\ log = <<>>
    /\ synced = 0
    /\ session = 0 /\ crashes = 0 /\ writeErrors = 0
    /\ up = "down"
    /\ m = NoManager
    /\ claims = <<>>
    /\ sender = NoSender
    /\ todo = {}
    /\ funnel = "START"
    /\ allocated = {}
    /\ job = [t \in Threads |-> NoJob]
    /\ abandoned = FALSE

(* What is left of a receiver that stopped. *)
Stopped ==
    /\ up' = "down"
    /\ m' = NoManager
    /\ claims' = <<>>
    /\ sender' = NoSender
    /\ todo' = {}
    /\ funnel' = "START"
    /\ allocated' = {}
    /\ job' = [t \in Threads |-> NoJob]

-----------------------------------------------------------------------------
(* The receiver starts, and the first sender connects *)

(* traverseDestinationDir *)
TreeClaims ==
    LET there == SetToSeq({f \in Files : disk[f].there})
    IN  [i \in DOMAIN there |->
            [name |-> there[i], size |-> disk[there[i]].size,
             chunks |-> <<Interval(0, disk[there[i]].size)>>]]

(* openLog, parseAndMatch and parseVerifyAndFix, called by Receiver::init. *)
InitReceiver(recovery) ==
    /\ up = "down"
    /\ session < MaxSessions
    /\ session' = session + 1
    /\ up' = "ready"
    /\ LET p == ParseLog(log, recovery)
       IN  /\ log' = FixedLog(log, p)
           /\ synced' = IF p.status = "INCONSISTENT_DIRECTORY" THEN Len(log')
                        ELSE Smaller(synced, Len(log'))
           /\ m' = [NoManager EXCEPT !.fd = p.status # "INVALID_LOG",
                                     !.status = p.status, !.ip = p.ip,
                                     !.recovery = recovery]
           /\ claims' = IF DirTree /\ p.status = "OK" THEN TreeClaims ELSE Parsed(p)
           /\ abandoned' = (abandoned \/ p.status = "INVALID_LOG")
    /\ UNCHANGED <<diskVars, crashes, writeErrors, sessionVars>>

(* startNewGlobalSession: startThread, then verifySenderIp, which          *)
(* invalidates the directory if the sender is another one than before.     *)
StartThread(mm) ==
    IF DirTree \/ mm.status # "OK" THEN mm ELSE [mm EXCEPT !.writer = "idle"]

OtherSender(ip) == m.ip # NoIp /\ m.ip # ip

StartSession(kind, files, ip) ==
    /\ up = "ready"
    /\ up' = "running"
    /\ sender' = [kind |-> kind, files |-> files]
    /\ LET invalidate == m.fd /\ OtherSender(ip)
       IN  /\ m' = [StartThread(m) EXCEPT
                       !.ip = IF m.fd THEN ip ELSE @,
                       !.status = IF invalidate THEN "INCONSISTENT_DIRECTORY"
                                                ELSE @]
           /\ log' = IF invalidate THEN Append(log, DirectoryInvalidation) ELSE log
           /\ synced' = IF invalidate THEN Len(log') ELSE synced
           /\ claims' = IF invalidate \/ ~m.fd THEN <<>> ELSE claims
    /\ todo' = IF kind = "plain" THEN BlocksFor(files, <<>>, 1) ELSE {}
    /\ UNCHANGED <<diskVars, boundVars, funnel, allocated, job, abandoned>>

(***************************************************************************)
(* Receiver::addTransferLogHeader: invalidateDirectory if the sender does  *)
(* not resume (or resumes by blocks what is resumed by sizes), then        *)
(* writeLogHeader.  Both write to the file at once and fsync it.           *)
(***************************************************************************)
InvalidateDirectory ==
    /\ log' = IF m.fd THEN Append(log, DirectoryInvalidation) ELSE log
    /\ synced' = IF m.fd THEN Len(log') ELSE synced
    /\ m' = IF m.fd THEN [m EXCEPT !.status = "INCONSISTENT_DIRECTORY"] ELSE m

WriteLogHeader ==
    /\ log' = IF m.fd THEN Append(log, Header(m.ip, m.recovery)) ELSE log
    /\ synced' = IF m.fd THEN Len(log') ELSE synced
    /\ m' = IF m.fd THEN [m EXCEPT !.status = "OK", !.headerWritten = TRUE] ELSE m

(* sendFileChunks: the chunks go to the sender, and the header to the log. *)
SendFileChunks ==
    /\ up = "running"
    /\ sender.kind = "resuming"
    /\ funnel = "START"
    /\ funnel' = "END"
    /\ todo' = BlocksFor(sender.files, Known,
                         IF DOMAIN claims = {} THEN 0 ELSE Max(DOMAIN claims) + 1)
    /\ CASE DirTree /\ BlockSize > 0 -> InvalidateDirectory
         [] DirTree /\ m.status = "INCONSISTENT_DIRECTORY" ->
              UNCHANGED <<log, synced, m>>
         [] OTHER -> WriteLogHeader
    /\ UNCHANGED <<diskVars, boundVars, up, claims, sender, allocated, job, abandoned>>

-----------------------------------------------------------------------------
(* The receiver threads *)

Goto(t, step) == job' = [job EXCEPT ![t].pc = step]

(* processFileCmd: on the first block of a thread, the thread that finds   *)
(* the funnel unused writes the header; one that finds it in progress goes *)
(* on.                                                                     *)
ProcessFileCmd(t) ==
    /\ up = "running"
    /\ job[t].pc = "idle"
    /\ sender.kind = "resuming" => funnel = "END"
    /\ \E b \in todo :
          /\ todo' = todo \ {b}
          /\ job' = [job EXCEPT ![t] =
                       [pc |-> IF @.first /\ funnel = "START" THEN "invalidate"
                                                              ELSE "open",
                        first |-> @.first, block |-> b, done |-> 0]]
          /\ funnel' = IF job[t].first /\ funnel = "START" THEN "PROGRESS" ELSE funnel
    /\ UNCHANGED <<diskVars, logVars, boundVars, up, m, claims, sender, allocated, abandoned>>

InvalidateForPlainSender(t) ==
    /\ job[t].pc = "invalidate"
    /\ Goto(t, "header")
    /\ InvalidateDirectory
    /\ UNCHANGED <<diskVars, boundVars, up, claims, sender, todo, funnel, allocated, abandoned>>

HeaderForPlainSender(t) ==
    /\ job[t].pc = "header"
    /\ Goto(t, "open")
    /\ funnel' = "END"
    /\ IF DirTree /\ m.status = "INCONSISTENT_DIRECTORY"
       THEN UNCHANGED <<log, synced, m>>
       ELSE WriteLogHeader
    /\ UNCHANGED <<diskVars, boundVars, up, claims, sender, todo, allocated, abandoned>>

(* FileCreator::setFileSize *)
SetFileSize(d, size) ==
    LET kept == IF d.size <= size THEN d.size ELSE IF Preallocate THEN size ELSE 0
    IN  [there |-> TRUE,
         size |-> IF Preallocate THEN Larger(kept, size) ELSE kept,
         good |-> {i \in d.good : i < kept}]

(* createFile, with O_TRUNC since downloads are resumed: whatever the file *)
(* held is gone before setFileSize is called.                              *)
Created == [there |-> TRUE, size |-> 0, good |-> {}]

Allocating(id) ==
    \E t \in Threads : job[t].pc \in {"setSize", "entries"} /\ job[t].block.seqId = id

(* openForBlocks: the first thread allocates, the others wait for it. *)
OpenForBlocks(t) ==
    LET b == job[t].block
    IN  /\ job[t].pc = "open"
        /\ CASE b.status = "TO_BE_DELETED" ->
                  /\ disk' = [disk EXCEPT ![b.name] = Absent]
                  /\ Goto(t, "log")
                  /\ UNCHANGED allocated
             [] b.seqId \in allocated \/ b.status = "EXISTS_CORRECT_SIZE" ->
                  /\ allocated' = allocated \cup {b.seqId}
                  /\ Goto(t, "write")
                  /\ UNCHANGED disk
             [] OTHER ->
                  /\ ~Allocating(b.seqId)
                  /\ disk' = IF b.status = "NOT_EXISTS"
                             THEN [disk EXCEPT ![b.name] = Created] ELSE disk
                  /\ Goto(t, "setSize")
                  /\ UNCHANGED allocated
        /\ UNCHANGED <<durable, logVars, boundVars, up, m, claims, sender, todo,
                       funnel, abandoned>>

SetSize(t) ==
    LET b == job[t].block
    IN  /\ job[t].pc = "setSize"
        /\ disk' = [disk EXCEPT ![b.name] = SetFileSize(@, b.fileSize)]
        /\ Goto(t, "entries")
        /\ UNCHANGED <<durable, logVars, boundVars, up, m, claims, sender, todo,
                       funnel, allocated, abandoned>>

(* addFileCreationEntry, addBlockWriteEntry and addFileResizeEntry do      *)
(* nothing before the header is written; addFileInvalidationEntry does.    *)
Logged(entry) == IF m.fd /\ m.headerWritten THEN <<entry>> ELSE <<>>
LoggedAlways(entry) == IF m.fd THEN <<entry>> ELSE <<>>

AllocationEntries(b) ==
    CASE DirTree -> <<>>
      [] b.status = "EXISTS_TOO_SMALL" -> Logged(FileResize(b.seqId, b.fileSize))
      [] b.status = "EXISTS_TOO_LARGE" ->
           LoggedAlways(FileInvalidation(b.prevSeqId))
               \o Logged(FileCreation(b.name, b.seqId, b.fileSize))
      [] OTHER -> Logged(FileCreation(b.name, b.seqId, b.fileSize))

AddAllocationEntries(t) ==
    LET b == job[t].block
    IN  /\ job[t].pc = "entries"
        /\ m' = [m EXCEPT !.entries = @ \o AllocationEntries(b)]
        /\ allocated' = allocated \cup {b.seqId}
        /\ Goto(t, "write")
        /\ UNCHANGED <<diskVars, logVars, boundVars, up, claims, sender, todo,
                       funnel, abandoned>>

WriteByte(t) ==
    LET b == job[t].block
        byte == b.off + job[t].done
    IN  /\ job[t].pc = "write"
        /\ job[t].done < b.size
        /\ disk' = [disk EXCEPT ![b.name].size = Larger(@, byte + 1),
                                ![b.name].good = @ \cup {byte}]
        /\ job' = [job EXCEPT ![t].done = @ + 1]
        /\ UNCHANGED <<durable, logVars, boundVars, up, m, claims, sender, todo,
                       funnel, allocated, abandoned>>

(* FileWriter::sync, at the end of a block, with log based resumption. *)
Sync_Skipped(t) ==
    /\ job[t].pc = "write"
    /\ job[t].done = job[t].block.size
    /\ Goto(t, "log")
    /\ UNCHANGED <<diskVars, logVars, boundVars, up, m, claims, sender, todo, funnel,
                   allocated, abandoned>>

Sync(t) ==
    /\ job[t].pc = "write"
    /\ job[t].done = job[t].block.size
    /\ LET f == job[t].block.name
       IN  durable' = IF DirTree \/ ~MachineCrashes
                      THEN durable
                      ELSE [durable EXCEPT ![f] = disk[f]]
    /\ Goto(t, "log")
    /\ UNCHANGED <<disk, logVars, boundVars, up, m, claims, sender, todo, funnel,
                   allocated, abandoned>>

BlockEntries(b) ==
    CASE DirTree -> <<>>
      [] b.status = "TO_BE_DELETED" -> LoggedAlways(FileInvalidation(b.seqId))
      [] OTHER -> Logged(BlockWrite(b.seqId, b.off, b.size))

MarkBlockVerified(t) ==
    /\ job[t].pc = "log"
    /\ m' = [m EXCEPT !.entries = @ \o BlockEntries(job[t].block)]
    /\ job' = [job EXCEPT ![t] = [NoJob EXCEPT !.first = FALSE]]
    /\ UNCHANGED <<diskVars, logVars, boundVars, up, claims, sender, todo, funnel,
                   allocated, abandoned>>

-----------------------------------------------------------------------------
(* The writer thread *)

TakeEntries ==
    /\ m.writer = "idle"
    /\ m.entries # <<>>
    /\ m' = [m EXCEPT !.writer = "writing", !.batch = m.entries, !.entries = <<>>]
    /\ UNCHANGED <<diskVars, logVars, boundVars, up, claims, sessionVars, abandoned>>

WriteEntriesToDisk ==
    /\ m.writer = "writing"
    /\ log' = log \o m.batch
    /\ m' = [m EXCEPT !.writer = "idle", !.batch = <<>>]
    /\ UNCHANGED <<diskVars, synced, boundVars, up, claims, sessionVars, abandoned>>

(* What a write that stops half way leaves of a batch. *)
Partial(batch) ==
    {SubSeq(batch, 1, n) : n \in 0 .. Len(batch)}
        \cup {Append(SubSeq(batch, 1, n), Torn) : n \in 0 .. Len(batch) - 1}

(* The thread ends; later entries stay in memory. *)
WriterFails ==
    /\ m.writer = "writing"
    /\ writeErrors < MaxWriteErrors
    /\ writeErrors' = writeErrors + 1
    /\ \E part \in Partial(m.batch) \ {m.batch} : log' = log \o part
    /\ m' = [m EXCEPT !.writer = "dead", !.batch = <<>>]
    /\ UNCHANGED <<diskVars, synced, session, crashes, up, claims, sessionVars, abandoned>>

-----------------------------------------------------------------------------
(* The end of a session: Receiver::fixAndCloseTransferLog *)

Quiet == \A t \in Threads : job[t].pc = "idle"

AllReceived ==
    /\ up = "running"
    /\ Quiet
    /\ todo = {}
    /\ sender.kind = "resuming" => funnel = "END"

(* shutdownThread lets the writer write what is left; without a writer     *)
(* nothing more reaches the file.                                          *)
WriterAlive == m.writer \in {"idle", "writing"}

Flushed == IF WriterAlive THEN log \o m.batch \o m.entries ELSE log
Unflushed == IF WriterAlive THEN <<>> ELSE m.entries

(* A directory that is still invalid after a success is made valid.  (The  *)
(* code asserts that this is needed only if sizes are trusted.)            *)
ValidatedLog ==
    IF m.fd /\ m.status = "INCONSISTENT_DIRECTORY"
    THEN Append(Flushed, Header(m.ip, m.recovery))
    ELSE Flushed

CompactionWanted ==
    Compaction /\ ~DirTree /\ m.fd /\ m.status # "INVALID_LOG"

CloseAfterSuccess ==
    /\ AllReceived
    /\ ~CompactionWanted
    /\ log' = IF m.status = "INVALID_LOG" THEN <<>> ELSE ValidatedLog
    /\ abandoned' = (abandoned /\ m.status # "INVALID_LOG")
    /\ synced' = CASE m.status = "INVALID_LOG" -> 0
                   [] m.status = "INCONSISTENT_DIRECTORY" -> Len(log')
                   [] OTHER -> synced
    /\ Stopped
    /\ UNCHANGED <<diskVars, boundVars>>

CloseAfterFailure ==
    /\ up = "running"
    /\ Quiet
    /\ ~AllReceived
    /\ log' = Flushed
    /\ Stopped
    /\ UNCHANGED <<diskVars, synced, boundVars, abandoned>>

(***************************************************************************)
(* compactLog: the log is parsed again and, if every file is one chunk of  *)
(* its whole size, truncated, and written anew in two writes, with entries *)
(* that a dead writer thread left in memory before the new ones.           *)
(***************************************************************************)
Compactable(p) ==
    /\ p.status = "OK"
    /\ \A i \in DOMAIN Parsed(p) :
          LET chunks == Parsed(p)[i].chunks
          IN  Len(chunks) = 1 /\ Size(chunks[1]) = p.infos[i].size

CompactEntries(p) ==
    LET ids == SetToSortSeq(DOMAIN p.infos, <)
    IN  FlattenSeq([k \in DOMAIN ids |->
           LET info == p.infos[ids[k]]
           IN  <<FileCreation(info.name, ids[k], info.size),
                 BlockWrite(ids[k], 0, info.size)>>])

BeginCompaction ==
    /\ AllReceived
    /\ CompactionWanted
    /\ LET p == ParseLog(ValidatedLog, m.recovery)
       IN  IF Compactable(p)
           THEN /\ log' = <<>>
                /\ synced' = 0
                /\ up' = "compacting"
                /\ m' = [m EXCEPT !.batch = Unflushed \o CompactEntries(p),
                                  !.entries = <<>>, !.writer = "none"]
                /\ UNCHANGED <<claims, sessionVars>>
           ELSE /\ log' = FixedLog(ValidatedLog, p)
                /\ synced' = IF p.status = "INCONSISTENT_DIRECTORY" THEN Len(log')
                             ELSE Smaller(Len(ValidatedLog), Len(log'))
                /\ Stopped
    /\ UNCHANGED <<diskVars, boundVars, abandoned>>

CompactHeader ==
    /\ up = "compacting"
    /\ up' = "compacted"
    /\ WriteLogHeader
    /\ UNCHANGED <<diskVars, boundVars, claims, sessionVars, abandoned>>

EndCompaction ==
    /\ up = "compacted"
    /\ log' = log \o m.batch
    /\ Stopped
    /\ UNCHANGED <<diskVars, synced, boundVars, abandoned>>

-----------------------------------------------------------------------------
(* Crashes *)

(* The process is killed: the system still has what was written, and of a  *)
(* write in progress any part.                                             *)
InFlight ==
    CASE up = "compacting" -> <<Header(m.ip, m.recovery)>>
      [] up = "compacted" \/ m.writer = "writing" -> m.batch
      [] OTHER -> <<>>

Crash ==
    /\ up # "down"
    /\ crashes < MaxCrashes
    /\ crashes' = crashes + 1
    /\ \E part \in Partial(InFlight) : log' = log \o part
    /\ Stopped
    /\ UNCHANGED <<diskVars, synced, session, writeErrors, abandoned>>

(* The machine stops.  Of the log, what follows the last fsync may be cut  *)
(* anywhere; a file is as it was seen, as it was last synced, or has the   *)
(* one's size with the other's contents.                                   *)
Survivors(f) ==
    {disk[f], durable[f],
     IF disk[f].there /\ durable[f].there
     THEN [disk[f] EXCEPT !.good = @ \cap durable[f].good]
     ELSE disk[f]}

MachineCrash ==
    /\ MachineCrashes
    /\ up # "down"
    /\ crashes < MaxCrashes
    /\ crashes' = crashes + 1
    /\ \E n \in synced .. Len(log), tail \in {<<>>, <<Torn>>} :
          /\ tail # <<>> => n < Len(log)
          /\ log' = SubSeq(log, 1, n) \o tail
          /\ synced' = Len(log')
    /\ disk' \in {d \in [Files -> UNION {Survivors(f) : f \in Files}] :
                     \A f \in Files : d[f] \in Survivors(f)}
    /\ durable' = disk'
    /\ Stopped
    /\ UNCHANGED <<session, writeErrors, abandoned>>

Start ==
    \/ \E recovery \in Recoveries : InitReceiver(recovery)
    \/ \E kind \in Senders, files \in Versions, ip \in Peers :
          StartSession(kind, files, ip)
    \/ SendFileChunks

ReceiveBlock(t) ==
    \/ ProcessFileCmd(t) \/ InvalidateForPlainSender(t) \/ HeaderForPlainSender(t)
    \/ OpenForBlocks(t) \/ SetSize(t) \/ AddAllocationEntries(t) \/ WriteByte(t) \/ Sync(t)
    \/ MarkBlockVerified(t)

WriterThread == TakeEntries \/ WriteEntriesToDisk \/ WriterFails

Finish ==
    \/ CloseAfterSuccess \/ CloseAfterFailure
    \/ BeginCompaction \/ CompactHeader \/ EndCompaction

Next ==
    \/ Start
    \/ \E t \in Threads : ReceiveBlock(t)
    \/ WriterThread
    \/ Finish
    \/ Crash \/ MachineCrash

Spec == Init /\ [][Next]_vars

-----------------------------------------------------------------------------
(* Properties *)

(***************************************************************************)
(* A log that a receiver found invalid makes sense to a later one.  In     *)
(* between the files were created anew, and nothing of it was recorded.    *)
(***************************************************************************)
Revived == abandoned /\ m.fd

(***************************************************************************)
(* A receiver that comes up after crashes tells the sender to leave out    *)
(* only bytes that are in the file ("BLOCK_WRITE, // Complete block        *)
(* fsynced to disk"), unless the log is a revived one.                     *)
(***************************************************************************)
ClaimsOnDisk ==
    up = "ready" /\ ~Revived =>
        \A i \in DOMAIN claims :
            BytesOf(claims[i].chunks) \subseteq disk[claims[i].name].good

(***************************************************************************)
(* When a transfer ends well, however many sessions and crashes it took,   *)
(* the sender's files are there, with their size and all their bytes,      *)
(* unless the log is a revived one.                                        *)
(***************************************************************************)
SuccessLeavesFiles ==
    AllReceived /\ ~Revived =>
        \A f \in DOMAIN sender.files :
            /\ disk[f].there
            /\ disk[f].size = sender.files[f]
            /\ disk[f].good = 0 .. (sender.files[f] - 1)

(***************************************************************************)
(* What the receiver wrote to its log, it can read again: a restart finds  *)
(* a log that is valid or an invalidated directory, never one that makes   *)
(* no sense to the parser.                                                 *)
(***************************************************************************)
LogStaysValid == m.status # "INVALID_LOG"
=============================================================================

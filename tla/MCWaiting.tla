----------------------------- MODULE MCWaiting -----------------------------
(***************************************************************************)
(* The places where threads of the library wait for each other or for the  *)
(* other side, for TLC with fairness.  One behaviour is about one of them, *)
(* which the variable part names; the others rest in their initial state.  *)
(*   generator     SourceQueue: files that come from a generator           *)
(*   links, plain  Discovery: a tree with cycles of links, and one without *)
(*   list          ChunksHandshake: the list of what the receiver has      *)
(*   newer, old    VersionNegotiation: a newer sender; one that is not     *)
(*                 supported and then a newer one                          *)
(*   allocation    FileCreator: threads that wait for an allocation        *)
(*   namespaces    ResourceController: namespaces that are deregistered    *)
(*   stream        CommandStream: reading what the sender writes           *)
(***************************************************************************)
EXTENDS TLC, Sequences, Naturals

CONSTANTS Parts, fa, fb, fc, t1, t2, t3

VARIABLES part,
          \* SourceQueue
          queue, tries, found, seqId, nextSeqId, numBlocks, dequeued, previous, chunksSet,
          initFinished, failed, failedFiles, disc, pc, opening, held, sent, pending, returns,
          drops,
          \* Discovery
          todoList, visited, cur, left, hasError, failedDirectories, dFound, dPc, aborted,
          dFaults,
          \* ChunksHandshake
          conn, snd, rcv, up, down, funnel, chunks, received, header, breaks,
          \* VersionNegotiation
          session, version, abortCode, appAbort, status, barrier, vFunnel, s, r, vConn, vUp,
          vDown, faults,
          \* FileCreator
          disk, dirs, createdDirs, fileStatusMap, mutex, cPc, blk, path, on, fd, tree, todo,
          written, cSession, cFaults, removals,
          \* ResourceController
          namespaceMap, ctl, num, maxNum, objects, call, shut,
          \* CommandStream
          cmds, count, spc, sized, taken, buf, off, oldOffset, numRead, want, stored, rpc

queueVars == <<queue, tries, found, seqId, nextSeqId, numBlocks, dequeued, previous, chunksSet,
               initFinished, failed, failedFiles, disc, pc, opening, held, sent, pending,
               returns, drops>>
discVars == <<todoList, visited, cur, left, hasError, failedDirectories, dFound, dPc, aborted,
              dFaults>>
listVars == <<conn, snd, rcv, up, down, funnel, chunks, received, header, breaks>>
versionVars == <<session, version, abortCode, appAbort, status, barrier, vFunnel, s, r, vConn,
                 vUp, vDown, faults>>
creatorVars == <<disk, dirs, createdDirs, fileStatusMap, mutex, cPc, blk, path, on, fd, tree,
                 todo, written, cSession, cFaults, removals>>
resourceVars == <<namespaceMap, ctl, num, maxNum, objects, call, shut>>
streamVars == <<cmds, count, spc, sized, taken, buf, off, oldOffset, numRead, want, stored, rpc>>
vars == <<part, queueVars, discVars, listVars, versionVars, creatorVars, resourceVars,
          streamVars>>

-----------------------------------------------------------------------------
Two == {t1, t2}
Three == {t1, t2, t3}

(* A file of two blocks listed at first, then an empty one; files may fail *)
(* to open.                                                                *)
ListFiles == (fa :> 2) @@ (fc :> 0)
ListBatches == <<{fa}, {fc}>>

Queue == INSTANCE SourceQueue WITH
    Threads <- Two, FileSize <- ListFiles, Batches <- ListBatches, Explore <- FALSE,
    BlockSize <- 1, Resume <- FALSE, Previous <- {}, DeleteExtra <- FALSE,
    MaxReturns <- 1, MaxDrops <- 2, Failures <- TRUE

Dir(d, n) == [dir |-> d, name |-> n, kind |-> "dir"]
File(d, n) == [dir |-> d, name |-> n, kind |-> "file"]
Link(d, n, t) == [dir |-> d, name |-> n, kind |-> "link", to |-> t]
Device(d, n) == [dir |-> d, name |-> n, kind |-> "other"]

(* Two links that close cycles, one to a directory also met without it,    *)
(* one to a file, and a device.                                            *)
Cyclic == {Dir("root", "a"), Link("root", "toB", "b"), File("root", "f"),
           Dir("a", "b"), File("a", "g"), Link("a", "up", "root"),
           File("b", "h"), Link("b", "back", "a"), Link("b", "toF", "f"),
           Device("b", "dev")}

Links == INSTANCE Discovery WITH
    Entries <- Cyclic, Root <- "root", FollowSymlinks <- TRUE, UnknownTypes <- FALSE,
    Excluded <- {"g"}, Pruned <- {}, MaxFaults <- 1,
    found <- dFound, pc <- dPc, faults <- dFaults

Acyclic == {Dir("root", "a"), File("root", "f"), Device("root", "dev"),
            Dir("a", "b"), File("a", "g"), Link("a", "up", "root"),
            Dir("root", "c"), File("c", "h"), File("c", "i")}

Plain == INSTANCE Discovery WITH
    Entries <- Acyclic, Root <- "root", FollowSymlinks <- FALSE, UnknownTypes <- TRUE,
    Excluded <- {"i"}, Pruned <- {"b"}, MaxFaults <- 2,
    found <- dFound, pc <- dPc, faults <- dFaults

(* Entries of which the first and the third would fit into a buffer of 6   *)
(* bytes together.                                                         *)
Entries == <<[max |-> 3, used |-> 2], [max |-> 4, used |-> 4], [max |-> 2, used |-> 1]>>

Lists == INSTANCE ChunksHandshake WITH
    Threads <- Two, List <- Entries, BufSize <- 6, MaxBreaks <- 2

NewSender == <<14>>
OldSenderFirst == <<9, 14>>

Newer == INSTANCE VersionNegotiation WITH
    Threads <- Two, SenderVersions <- NewSender, ReceiverVersion <- 13, ChecksumVersion <- 12,
    AppMayAbort <- TRUE, MaxFaults <- 1,
    funnel <- vFunnel, conn <- vConn, up <- vUp, down <- vDown
Older == INSTANCE VersionNegotiation WITH
    Threads <- Two, SenderVersions <- OldSenderFirst, ReceiverVersion <- 13,
    ChecksumVersion <- 12, AppMayAbort <- FALSE, MaxFaults <- 1,
    funnel <- vFunnel, conn <- vConn, up <- vUp, down <- vDown

(* Three blocks of one file: two threads wait for the third. *)
OneFile == {fa :> 5}
TopLevel == fa :> <<>>

Creator == INSTANCE FileCreator WITH
    Threads <- Three, Files <- {fa}, DirOf <- TopLevel, Trees <- OneFile, BlockSize <- 2,
    Resumption <- FALSE, Overwrite <- TRUE, Preallocate <- TRUE, DeleteExtra <- FALSE,
    MaxSessions <- 1, MaxFaults <- 1, MaxRemovals <- 0,
    pc <- cPc, session <- cSession, faults <- cFaults

TwoSenders == [k \in {"sender"} |-> 2]
NoLimit == [k \in {"sender"} |-> 0]

Resources == INSTANCE ResourceController WITH
    Clients <- Two, Kinds <- {"sender"}, Namespaces <- {"n1"}, Keys <- {"k1", "k2"},
    Limits <- {}, GlobalLimit <- TwoSenders, NamespaceLimit <- NoLimit, Strict <- FALSE,
    Operations <- {"create", "release", "deRegister"}, MaxControllers <- 2, MaxObjects <- 2,
    down <- shut

Stream == INSTANCE CommandStream WITH
    BufSize <- 12, KMinBufLength <- 3, KMaxHeader <- 6, SettingsLens <- {2, 3}, SizeLens <- {1},
    HeaderLens <- {2, 3}, DataSizes <- {7}, FooterLens <- {2}, Resuming <- FALSE,
    Checksum <- TRUE, MaxCommands <- 4,
    sent <- count, written <- stored, pc <- rpc

-----------------------------------------------------------------------------
Init ==
    /\ part \in Parts
    /\ Queue!Init /\ Links!Init /\ Lists!Init /\ Creator!Init /\ Resources!InitController
    /\ Stream!Init
    /\ IF part = "old" THEN Older!Init ELSE Newer!Init

Generate ==
    /\ part = "generator" /\ Queue!Next
    /\ UNCHANGED <<part, discVars, listVars, versionVars, creatorVars, resourceVars, streamVars>>
Explore ==
    /\ \/ part = "links" /\ Links!Next
       \/ part = "plain" /\ Plain!Next
    /\ UNCHANGED <<part, queueVars, listVars, versionVars, creatorVars, resourceVars, streamVars>>
SendList ==
    /\ part = "list" /\ Lists!Next
    /\ UNCHANGED <<part, queueVars, discVars, versionVars, creatorVars, resourceVars, streamVars>>
Negotiate ==
    /\ \/ part = "newer" /\ Newer!Next
       \/ part = "old" /\ Older!Next
    /\ UNCHANGED <<part, queueVars, discVars, listVars, creatorVars, resourceVars, streamVars>>
Allocate ==
    /\ part = "allocation" /\ Creator!Next
    /\ UNCHANGED <<part, queueVars, discVars, listVars, versionVars, resourceVars, streamVars>>
CallController ==
    /\ part = "namespaces" /\ Resources!Next
    /\ UNCHANGED <<part, queueVars, discVars, listVars, versionVars, creatorVars, streamVars>>
ReadStream ==
    /\ part = "stream" /\ Stream!Next
    /\ UNCHANGED <<part, queueVars, discVars, listVars, versionVars, creatorVars, resourceVars>>

Next ==
    Generate \/ Explore \/ SendList \/ Negotiate \/ Allocate \/ CallController \/ ReadStream

Spec == Init /\ [][Next]_vars

-----------------------------------------------------------------------------
(***************************************************************************)
(* Fairness.  Every thread the code starts is scheduled; a system call     *)
(* ends, with a result or an error; a read or write of a connection ends   *)
(* with data, an error or a timeout.  Nothing makes a connection break, a  *)
(* call fail or a thread give up.                                          *)
(***************************************************************************)
QueueFair ==
    /\ WF_queueVars(part = "generator" /\ Queue!Discovery)
    /\ WF_queueVars(part = "generator" /\ Queue!SetChunks)
    /\ \A t \in Two :
          /\ WF_queueVars(part = "generator" /\ Queue!GetNextSource(t))
          /\ WF_queueVars(part = "generator" /\ (Queue!Opened(t) \/ Queue!OpenFails(t)))
          /\ WF_queueVars(part = "generator" /\ Queue!SmartNotify(t))
          /\ WF_queueVars(/\ part = "generator" /\ pc[t] = "null"
                          /\ Queue!Acknowledge(t) \/ Queue!End(t))

LinksFair ==
    WF_discVars(/\ part = "links"
                /\ Links!OpenDir \/ Links!CloseDir \/ Links!FinishExplore \/ Links!ReadEntry)
PlainFair ==
    WF_discVars(/\ part = "plain"
                /\ Plain!OpenDir \/ Plain!CloseDir \/ Plain!FinishExplore \/ Plain!ReadEntry)

ListFair ==
    \A t \in Two :
        /\ WF_listVars(part = "list" /\ Lists!Connect(t))
        /\ WF_listVars(part = "list" /\ Lists!SenderStep(t))
        /\ WF_listVars(part = "list" /\ Lists!ReceiverStep(t))

NewerFair ==
    /\ \A t \in Two : /\ WF_versionVars(part = "newer" /\ Newer!SenderStep(t))
                      /\ WF_versionVars(part = "newer" /\ Newer!ReceiverStep(t))
    /\ WF_versionVars(part = "newer" /\ Newer!NextSender)
OlderFair ==
    /\ \A t \in Two : /\ WF_versionVars(part = "old" /\ Older!SenderStep(t))
                      /\ WF_versionVars(part = "old" /\ Older!ReceiverStep(t))
    /\ WF_versionVars(part = "old" /\ Older!NextSender)

CreatorFair == \A t \in Three : WF_creatorVars(part = "allocation" /\ Creator!Step(t))

ResourcesFair ==
    \A p \in Two : /\ WF_resourceVars(part = "namespaces" /\ Resources!Inside(p))
                   /\ WF_resourceVars(part = "namespaces" /\ Resources!Return(p))

StreamFair ==
    /\ WF_streamVars(part = "stream" /\ Stream!Sender)
    /\ WF_streamVars(part = "stream" /\ Stream!Receiver)

-----------------------------------------------------------------------------
(***************************************************************************)
(* DirectorySourceQueue: every sender thread ends and so does discovery;   *)
(* no waiter sleeps through the last notification, and nobody waits for a  *)
(* thread that has left.                                                   *)
(***************************************************************************)
QueueEnds == [](part = "generator") /\ QueueFair => Queue!AllEnd

(***************************************************************************)
(* explore: when no call fails, every file that is not excluded is found   *)
(* in every directory that is not pruned, although a directory that links  *)
(* lead to is entered by one of the paths only.                            *)
(***************************************************************************)
EveryFileFound ==
    CASE part = "links" -> Links!EveryFileFound
      [] part = "plain" -> Plain!EveryFileFound
      [] OTHER -> TRUE

(* Discovery ends, whatever cycles the links form, and with it the wait of *)
(* the sender threads.                                                     *)
DiscoveryEnds ==
    /\ [](part = "links") /\ LinksFair => Links!Ends
    /\ [](part = "plain") /\ PlainFair => Plain!Ends

(***************************************************************************)
(* SenderThread, ReceiverThread: no sender thread takes blocks before the  *)
(* queue has the receiver's list, every entry once and in order, whatever  *)
(* pieces it came in and however often it was sent.                        *)
(***************************************************************************)
ListBeforeBlocks == part = "list" => Lists!ListBeforeBlocks

(***************************************************************************)
(* The SEND_FILE_CHUNKS funnel: once connections stop breaking every       *)
(* thread gets to send blocks; no failure leaves the others waiting for a  *)
(* list that nobody sends.                                                 *)
(***************************************************************************)
AllSendBlocks == [](part = "list") /\ ListFair => Lists!AllSendBlocks

(***************************************************************************)
(* processVersionMismatch: the two ends of a connection over which blocks  *)
(* go use one protocol version, a supported one and the lower of the two,  *)
(* and agree on the footers of blocks, also for the sender that follows    *)
(* one the receiver had to turn away.                                      *)
(***************************************************************************)
VersionsAgree ==
    CASE part = "newer" -> Newer!VersionsAgree
      [] part = "old" -> Older!VersionsAgree
      [] OTHER -> TRUE

(***************************************************************************)
(* However the abort, the barrier and the funnel interleave with broken    *)
(* connections and an abort by the application, every sender thread ends.  *)
(***************************************************************************)
NegotiationEnds ==
    /\ [](part = "newer") /\ NewerFair => Newer!AllEnd
    /\ [](part = "old") /\ OlderFair => Older!AllEnd

(* FileCreator, waitForAllocationFinish: a thread that waits for another's *)
(* allocation is woken, whether the allocation succeeds or fails.          *)
WaitersWake == [](part = "allocation") /\ CreatorFair => Creator!WaitersWake

(***************************************************************************)
(* deRegisterWdtNamespace waits for the calls that still use the namespace *)
(* and then returns, and so does every other call.                         *)
(***************************************************************************)
CallsReturn == [](part = "namespaces") /\ ResourcesFair => Resources!CallsReturn

(* ReceiverThread: the receiver gets to the end of the stream; it never    *)
(* waits for more bytes than the sender writes before it waits itself.     *)
EveryCommandHandled == [](part = "stream") /\ StreamFair => Stream!EveryCommandHandled

(***************************************************************************)
(* Everybody who waits inside a transfer goes on in the end: at the queue, *)
(* for the discovery, for the list of chunks, at the barrier and in the    *)
(* funnel, for an allocation, for a namespace, and for a command.          *)
(***************************************************************************)
EveryWaitEnds ==
    /\ QueueEnds /\ DiscoveryEnds /\ AllSendBlocks /\ NegotiationEnds
    /\ WaitersWake /\ CallsReturn /\ EveryCommandHandled
=============================================================================

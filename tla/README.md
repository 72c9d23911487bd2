# A TLA+ model of WDT and its front ends

This directory holds a formal model of this repository (the WDT transfer engine,
the Android library and sample application, and the desktop tool), the
properties it is checked for with TLC, and theorems about it that are proved
with TLAPS.

    tlc -workers 2 -config Checksum.cfg MCTransfer     # runs: see section 3
    tlapm OwnershipProofs.tla                          # any of the *Proofs.tla files

`PROJECT.json` lists the parts of the system, the runs with their properties, the
source lines behind every definition, the mutations, the hazards and the
theorems.

## 1. The system and its parts

A transfer moves the files of a directory from a `Sender` to a `Receiver` over
N ports. Each side runs one thread per port; a sender thread and the receiver
thread of its port talk over one TCP connection at a time. Files are cut into
blocks, and all sender threads take blocks from one queue.

| Part | Source | Module |
|---|---|---|
| Sender threads, `Sender::finish` | `SenderThread.cpp`, `Sender.cpp` | SenderThread |
| Histories and checkpoints | `util/ThreadTransferHistory.cpp` | ThreadTransferHistory |
| Receiver threads, list of checkpoints | `ReceiverThread.cpp`, `Receiver.cpp` | ReceiverThread |
| Sockets | `util/WdtSocket.cpp`, `ClientSocket.cpp`, `ServerSocket.cpp` | Connections |
| Both sides together | | Transfer |
| Source queue | `util/DirectorySourceQueue.cpp` | SourceQueue, BlockPool |
| Exploration of the source directory | `DirectorySourceQueue::explore` | Discovery |
| Received chunks and what is left to send | `Protocol.cpp`, `DirectorySourceQueue.cpp` | Intervals, FileChunks |
| Passing the list of chunks to the sender | SEND_FILE_CHUNKS, READ_FILE_CHUNKS | ChunksHandshake |
| Barrier and funnel | `util/ThreadsController.cpp` | ThreadsController |
| Version negotiation | `processVersionMismatch` and settings | VersionNegotiation |
| Transfer log, resumption after a crash | `util/TransferLogManager.cpp`, `Receiver.cpp` | TransferLog |
| Creation and writing of files | `util/FileCreator.cpp`, `FileWriter.cpp` | FileCreator |
| Commands in the receive buffer | `readAtLeast`, `processFileCmd` ... | CommandStream |
| Encoding of commands | `Protocol.cpp`, `util/SerializationUtil.cpp` | Encoding |
| Resource controller | `WdtResourceController.cpp` | ResourceController |
| `wdtSend`, `wdtReceiveStart`, `wdtReceiveFinish` | `Wdt.cpp` | WdtApi |
| Rate limiter | `Throttler.cpp` | Throttler |
| Android library | `wdt_jni.cpp`, `WdtTransfer.kt` ... | NativeTransfer |
| Shares and pushes of the sample | `Share.kt`, `Nearby.kt`, `Peers.kt` | ShareSession |
| Screen, Stop and notification of the sample | `MainActivity.kt`, `TransferService.kt` | SampleApp |
| Devices on the network | `desktop/awdt.cpp`, `Nearby.kt`, `Peers.kt` | Hub |
| Saving what the desktop receives | `desktop/awdt.cpp` | DesktopReceive |

### What is hard in this code

* A connection can fail in the middle of a block. The receiver's checkpoint
  says how many whole blocks it has and how much of the next one; what is not
  covered goes back to the queue, from where *another* port may send the rest.
* A port that cannot be re-established publishes its checkpoint to the other
  receiver threads, and one of these passes it on as a *global checkpoint*.
  Another sender thread applies it to the history of the failed one, which may
  still be between its last write and `addSource`. A write that succeeds proves
  nothing about delivery, so a relayed checkpoint may be lost or arrive twice.
* WAIT, DONE and ERR acknowledge everything a thread has sent; one thread that
  ends well acknowledges everything of *all* threads.
* Threads meet at barriers and funnels that other threads may never reach, and
  connections break while one thread does something for all.
* The receiver may stop between writing a block, syncing it and logging it, and
  the log is read by a later process against files that changed since.
* Locks are given back between two steps that belong together: reading a clock
  and using it, counting a sender and storing it, checking `closed` and storing
  what `close` would stop, looking for a free file name and taking it.

`PROJECT.json` lists these hazards at their lines with the properties that cover them.

## 2. The modules

    ThreadTransferHistory   checkpoints and histories, as operators on records
      Connections           the connections of a port, and their failures
        SenderThread        sender threads, queue, Sender::finish
        ReceiverThread      receiver threads, list of checkpoints
          Transfer          both together: Next, Spec, fairness, the properties
            MCTransfer  <-  MCFailures
          SenderProofs      (on SenderThread)
            TransferProofs  (on Transfer and SenderProofs)
              OwnershipProofs, HandshakeProofs, DeliveryProofs
    Intervals               pure operators on intervals
      SourceQueue (implements BlockPool)
        SourceQueueLemmas -> SourceQueueProofs
      FileChunks            merging and packing of chunks, as recursive operators
        ChunksHandshake, TransferLog
    ThreadsController       pure operators
      VersionNegotiation
    ResourceController
      WdtApi
    NativeTransfer
      NativeTransferProofs
    Discovery, FileCreator, CommandStream, Encoding, Throttler,
    ShareSession, SampleApp, Hub, DesktopReceive

One action stands for one handler or for one stretch of code that runs under a
lock. Where a handler can be overtaken half-way, its thread has a state for that
point; where nobody can see the point between two steps, they are one step.

### The block protocol

**ThreadTransferHistory.** Every method of the class holds `mutex_`, so each is
an operator from a history record to a history record. A source is a block and
the offset at which its next send starts; `(seqId, offset)` of the code is the
pair `(blk, off)`. `ZeroBlock` is the block whose `(seqId, offset)` is `(0, 0)`,
the value that "no partial block" shares with it. Such a block exists when a download
is resumed from an empty list of chunks (`DirectorySourceQueue.cpp:150`); in other
transfers the ids start at 1 (`DirectorySourceQueue.h:396`), and `ZeroBlock` is none of
the blocks.

**Connections.** The connections of a port are numbered; each has a stream of
commands in both directions. A side can read what the other wrote before it
closed. `Break` fails the path of a connection: any suffix of both streams is
lost, and the last command left may be cut. After a failure a write may still
succeed (the kernel buffered it) or fail. A break that loses nothing also
stands for a read that times out. A connection attempt may have timed out at
the sender and still wait in the receiver's accept queue. `FooterType` says what
lets the receiver trust a block: `NO_FOOTER`, bytes count as they are written;
`CHECKSUM_FOOTER`, a block counts with its footer; `TAG`, a block counts when a tag
that follows it is right, and any read may meet one.

**SenderThread and ReceiverThread.** The states are those of the code, with more
values for the points at which a handler can be overtaken:

| Value | Where the thread is |
|---|---|
| `ADD_SOURCE` | `sendBlocks`, between the last socket write and `addSource` |
| `PROCESS_ERR_CMD`, `WAIT_NOT_IN_USE` | `processErrCmd`, between two checkpoints, and waiting in `setGlobalCheckpoint` |
| `EXPECT_EOS` | `processDoneCmd`, waiting for the end of the stream |
| `SEND_WAIT_CMD` | `waitForFinishOrNewCheckpoint`, with the lock released |
| `READ_DONE_ACK` | `sendDoneCmd`, waiting for the acknowledgement |

**Transfer** composes the two, with `Sender::finish` and the failures. Its
constant `PromptAddSource` states a timing assumption: a sender thread gets from
its last write to `addSource`, two lines later, before the receiver's accept
window (longer than the sender's timeouts, `ReceiverThread.cpp:207-212`) is
over. All runs but the setting `late` of `failures` make it; without it a global
checkpoint can be refused, because `setGlobalCheckpoint` validates first and waits for
the owner of the history afterwards, where its comment (`ThreadTransferHistory.h:93`)
has it the other way round.

### The sender's queue

**SourceQueue** has one action for each stretch of `DirectorySourceQueue` between
a lock and the next unlock or wait: files are discovered in batches (a tree, or
a list and a generator) and cut into blocks; threads wait, take, open, return
and are notified (`SmartNotify` is the partial notification of the code); the
receiver's chunks may arrive at any point and rebuild the queue; files to be
deleted are queued at the end. `Precedes` is the order of the queue (`SourceComparator`):
a thread takes one of the blocks that no other precedes. **BlockPool** is what the users of the queue rely on (a block
is with at most one thread, comes back or is settled; a thread is dismissed only
when nothing can come but what others hold); `ImplementsPool` is the refinement
under the mapping at the end of SourceQueue.

**Discovery** walks a file system given as a set of entries, with links that may
form cycles, unknown entry types, pruned and excluded names, failing calls and an
abort. **Intervals** has `getRemainingChunks` and the cutting into blocks, **FileChunks**
`mergeChunks` and the packing of the list into buffers. **ChunksHandshake** has the funnel by which one
thread of the receiver sends the list and the others wait, over connections that
break and are made again.

### Versions, bytes and files

**VersionNegotiation**: settings with a version, the receiver's check, ABORT with
VERSION_MISMATCH, the abort code of the sender, barrier, funnel and the thread
that changes the version; threads may end early, the application may abort, and a
long-running receiver serves several senders in turn. **ThreadsController** has the
operators of barrier and funnel.

**CommandStream** models the receive buffer: a byte is its position in the stream,
so decoding from a wrong place is seen. Reads return any number of bytes that
the code allows. The lengths are scaled down (3 for kMinBufLength, 6 for
kMaxHeader, 12 for the buffer) and keep the relations of `Protocol.h`. **Encoding** has
every command of `Protocol.cpp` in the versions at which a format changes, over bytes
of 3 bits; a recursive function decodes a variable-length integer.

**TransferLog** follows receivers that work on one directory one after the other.
The log is a sequence of entries in memory (`m.entries`), with the writer thread
(`m.batch`), in the file, and on the medium; a crash of the process loses the first
two and may tear the last write, a crash of the machine loses everything not
synced. Each session parses the log (`LogParser`), claims what it found, and a
sender sends the rest; a file that is created is truncated when it is opened, before
its size is set. `abandoned` remembers that a receiver found the log invalid and worked
without it. **FileCreator** has the threads of a session that open blocks
of the same files: who comes first allocates, the others wait on that thread's
condition variable; directories are cached.

### The process

**ResourceController** has both levels of locks and every call in between; a namespace
that is removed loses its senders in one step and its receivers in another, and is still
in the hands of the calls that had found it before.
**WdtApi** extends it by the functions that applications call. **Throttler** has the
clock, the two algorithms and the state that all threads share; a thread reads
the clock, computes under the lock and sleeps in three steps.

### The front ends

**NativeTransfer** is the life of a handle: the read-write lock of `WdtTransfer`, the
native object with its transfer threads and progress thread, the instance lock,
the listener. **ShareSession** has the two handshakes of the sample (download and push)
with `close` on both sides at any point. **SampleApp** has the UI thread with its posted
runnables, the executor's threads, the push server and the foreground service. The
handlers of a share go on after `serve()` has returned, since it joins none of them.
**Hub** has the datagrams with the periods and times to live of the code, in
seconds; a broadcast comes up to `MaxDelay` later than its period. **DesktopReceive** has
receptions from the handshake to the last rename; looking for a free name and renaming
are two steps.

## 3. The runs

TLC checks a component in several small settings that ask different questions. The
modules MCFailures, MCStorage, MCProtocol, MCWaiting, MCProcess and MCApps hold
these settings as instances of the components. Their variable `part` is chosen in
the initial state, names the setting a behaviour is about and never changes; the
variables of the other components keep their initial values. A property is the
property of the component in the settings in which it is meant to hold. A liveness
property has the form `[](part = "x") /\ XFair => P`, so that the fairness of one
component is not assumed of another. MCTransfer has no parts.

| Run | Module | States | Shows |
|---|---|---|---|
| `checksum` | MCTransfer | 694,931 | the safety of the block protocol: nothing is lost, owned twice, or acknowledged without having arrived |
| `failures` | MCFailures | 1,109,870 | the same when the recovery itself fails, with parts of blocks, three ports, tags, and a late `addSource` |
| `liveness` | MCTransfer | 123,258 | both sides end |
| `storage` | MCStorage | 1,660,177 | what is on disk after crashes, and what threads that share a file do to it |
| `protocol` | MCProtocol | 461,042 | queue, versions, buffer and encoding: the two sides understand each other |
| `waiting` | MCWaiting | 208,055 | everybody who waits inside a transfer is woken |
| `process` | MCProcess | 806,570 | counts, limits and rates that the transfers of a process share |
| `apps` | MCApps | 1,271,448 | native handles, shares and pushes, Stop and notification, devices, saved files |
| `apps_live` | MCApps | 87,671 | close, abort, Stop and the handlers come to an end |
| `seq_id_zero`, `tags_two_ports`, `stream_header` | MCTransfer, MCProtocol | | disagreements, see below |

CHECK_DEADLOCK is off where a setting really ends: all calls have returned, the
session is over, or the bounded failures are used up. The runs of MCTransfer and
MCFailures have an explicit stuttering step for the end of a transfer and check
for deadlock.

### The settings, their bounds, and why they are enough

**The block protocol.** Two blocks are "the acknowledged one, and the one in doubt",
and let both ports hold one. Two bytes are enough for a part that is neither nothing
nor all. One failure of two ports starts every recovery: a reconnection, a port given
up, a relay. `failures` adds a failure of the recovery itself: `no_footer` (parts of blocks
move between ports), `reconnects` (parts of parts on one port), `relay` (a relayed
checkpoint is lost, repeated), `three_ports` (two relays of one checkpoint), `tags`
(blocks wait for tags over three reconnections), `late` (a thread is overtaken between its
last write and `addSource`: `PromptAddSource` is false). `relay`, `three_ports` and `late`
start when all ports are connected and none has sent a block (`ConnectedInit`, a reachable
state). Ports are symmetric.

`RefusalsExplained` is asked of all six. The code does refuse correct checkpoints, and
the property says for which reasons, on the path of a local and of a global checkpoint:
it counts the block its owner has yet to add (`late`), or it reports a part of a block of
which the last one reported nothing, or the reverse (`no_footer`, `reconnects`, and only
without footers). Any other refusal would be a violation. `SuccessMeansDelivered` is not
asked of `late`, where the first kind of refusal loses a block in the way `seq_id_zero`
shows; `no_footer` has two ports and one failure and `reconnects` one port, so that neither
reaches the false success of `seq_id_zero`, which takes two ports and two failures.
`AckedDelivered` is not asked of `tags`, where WAIT acknowledges blocks that no tag has
confirmed yet.

**storage.** The settings `machine`, `restart`, `compaction`, `deletes`, `sizes` and `sizes_blocks`
have three sessions (`machine` four) over one or two files that change their size, come
or go, with up to two crashes: a crash, a recovery that crashes, and a session that reads
what both left. `resume`, `again` and `dirs` have two or three threads on two files, one
failing system call, or directories that are removed. `chunks` enumerates every list
of up to 3 chunks of a file of up to 5 bytes.

**protocol.** `resume`: two threads, two files of the sender and one that only the
receiver has, four lists of chunks, one lost connection and one thread that gives up.
`versions`: three threads, so that two wait while the third ends early. `stream` and
`chunks`: five commands, blocks with and without footers, data shorter and longer than
what is left of the buffer. `encoding`: every command, with every boundary value of
every field, in ten versions.

**waiting.** The smallest settings in which a thread can wait for another one and
that one can fail: two threads (three for an allocation), one or two failures.

**process.** Two or three clients and up to three senders, limits of one to three, a
namespace that comes and goes (`counting`: with calls that had found it before);
`sending`, `replacing` and `receiving` have the calls of an application on top; two or three
threads at a throttler, five to eight tokens in four seconds, two changes of the rates.

**apps.** Three threads and the listener at one handle; two downloads or two pushes; three
or four transfers of the sample with at most two incoming, which is enough for one that
goes on, one that opens its files and one that is started meanwhile; one device of
either kind with the periods of the code (3 and 10 seconds), a second of delay and two
lost datagrams, what the times to live (12 and 35 seconds) leave room for; three receptions
of two files by one process (`folder`), and of one file by two processes (`processes`).

Named bounds: `MaxConns`, `MaxBreaks`, `MaxDiskErrors`, `MaxReturns`, `MaxDrops`, `MaxFaults`,
`MaxSessions`, `MaxCrashes`, `MaxWriteErrors`, `MaxRemovals`, `MaxCommands`, `MaxControllers`,
`MaxObjects`, `MaxTime`, `MaxBytes`, `MaxResets`, `MaxAborts`, `MaxCopies`, `LostAnnouncements`,
`LostAnswers`, `MaxDelay`. They count failures or calls and cut nothing off in between.

### Fairness

Every thread the code starts is scheduled (weak fairness of its step). A read or write
ends with data, an error or its timeout, so a thread that waits for the other side goes
on; nothing is assumed of the network, and nothing makes a failure happen. Waits on
condition variables are fair only once they are notified; spurious wake-ups are not
relied on and not modelled. Strong fairness is assumed where a lock may be taken and
given back in between: `close` of a native handle, whose lock a caller of `abort` may hold
again and again (`MaxAborts` bounds these calls, since `tryLock` barges), handlers that
wait for `wdtLock`, and a push that waits for its turn. `Termination` also assumes
`PromptAddSource`.

### Mutations

Every property of every passing run has a mutation: a variant of a definition with
a plausible bug (an off-by-one, a dropped reset, a guard that is too weak), kept
next to the definition under a name such as `AddSource_AfterGlobal`, which makes
the run find the property violated.

### The runs that show a disagreement

* `seq_id_zero`: "no partial block" is written as seqId 0 and offset 0, which is the
  first block of the first file when a download is resumed from an empty list of
  chunks. `validateCheckpoint` compares these fields without
  asking whether a block is partial. A thread that reconnects before it has sent
  anything is given such a checkpoint; when its next connection is lost inside the
  first block and its receiver thread gives up, the checkpoint with the bytes that
  arrived is refused as "same block, different bytes". `handleGlobalCheckpoint` ignores
  that, the block stays with the dead thread, the thread of the other port ends with
  OK, and `Sender::finish` reports a success for a block whose last bytes never arrived.
  (With one port the refusal ends the only thread with PROTOCOL_ERROR. Without resumption
  no block has seqId 0, and a block that is cut before its first byte has the same
  effect: the run finds it also with a `ZeroBlock` outside `Blocks`.)
* `tags_two_ports`: with tags, a receiver thread counts as FINISHED before the tag for
  its last blocks has arrived. When its connection is lost then, another port can
  still be told DONE, and the sender reports success for blocks that the receiver
  wrote but never confirmed.
* `stream_header`: a header that is longer than the bytes read so far (a file name of over
  200 bytes) and arrives in two parts is completed at a wrong place of the buffer.

### What the passing settings leave out

The settings above were chosen so that the properties hold; this is where they stop
holding. Each item is a behaviour of the model in another setting of the same module.

* Histories: the checkpoint `returnUnackedSourcesToQueue` makes up can be refused for the
  reason of `seq_id_zero`, and the check in `popAckedSourceStats` then fails
  (`BlockSize` 2 without footers, two failures). With a late `addSource` and two failures a
  success can be reported for a block that never arrived (`SuccessMeansDelivered` in
  `late`).
* SourceQueue: with `Failures`, a file whose stat or directory failed is taken for an extra
  file and deleted at the receiver (`DeletesOnlyExtra`).
* Discovery: an entry whose `lstat` fails is left out and not reported as failed. With
  `FollowSymlinks` and a pruned link name, the directory behind the link is marked visited
  before its name is compared, and is not found by its own path either (`EveryFileFound`).
* ChunksHandshake: a list entry that does not fit the buffer is not ignored, as
  `ReceiverThread.cpp:797` has it; empty pieces are sent for ever.
* VersionNegotiation: a long-running receiver keeps the version of its last sender, and
  turns away a later one that no longer supports it (`MismatchIsResolved`). `VersionsAgree`
  asks for the lower of the two versions unless an earlier sender has lowered the
  receiver's. A thread that leaves the negotiation by the end of the funnel keeps its old
  footer type, which is wrong if one of the two versions is below CHECKSUM_VERSION and the
  other is not; the versions of `newer` and `old` are not.
* TransferLog: without preallocation a file that shrank makes the log unreadable, and two
  crashes can leave a claim over a hole. A plain sender lets one thread log before the
  header is written. A session that starts on an inconsistent directory has no writer
  thread, so its entries are dropped. An empty transfer onto such a directory meets the
  check in `fixAndCloseTransferLog`. A failed write to the log followed by compaction, growth
  under a crash of the machine, and deletion with a changed size lead to INVALID_LOG
  too. A log that is invalid because a crash of the machine took back the growth of a
  file is left as it is, to keep the directory invalid (`TransferLogManager.cpp:597`). A
  session that then creates the file anew and stops can make it valid again; the next
  session claims bytes that are gone, and may end well with a file that lacks them
  (`ClaimsOnDisk` and `SuccessLeavesFiles` exclude such a log: `Revived`).
* ResourceController: a sender created in a namespace after it was emptied stays counted
  with a namespace that nobody can find, and the check in `shutdown` fails. `CountsMatch`
  counts it where it is. WdtApi: with `terminateExistingOne` the old and the new sender
  overlap and exceed the limit, the global quota is checked before the sender to be
  replaced is found, and the replaced call releases its successor; `CanGetBack` is about
  destinations at which nothing was replaced. A failed `init` leaves its sender or receiver
  registered.
* Throttler: with a clock finer than a token, rounding a negative bucket towards zero
  forgives up to a token per call (`PeakRespected`).
* ShareSession: a handler between reading `closed` and storing its sender serves its
  download after the share was closed.
* SampleApp: a push can be accepted while a share is being opened, and Stop reaches only
  one of the two; so can a click on a list button that was added meanwhile. `crossed`
  remembers that this has happened, and `StopReaches` says that nothing else leads to two
  transfers or to a Stop without effect. Stop pressed before `stoppable` is set does
  nothing. A push accepted as its question times out leaves the screen busy
  (`BusyHasTransfer` is not asked of `incoming`). A handler of a share that has been
  stopped, of a WDT download as well as of a browser's, can bring the notification back
  (`NotificationGone` is about the time before a share is over), and `onDestroy` can leave one.
* Hub: `receives` of a phone that shares is never cleared; a third loss, or two seconds of
  delay with two losses, can remove a device that is there. DesktopReceive: `awdt receive` and
  `awdt get`, two processes that find the same name free, can move a file over the other's,
  against "renaming instead of overwriting" (`awdt.cpp:471`); `raced` remembers them, and
  `NothingOverwritten` says that nobody else does.
* CommandStream: settings longer than kMinBufLength are cut off when chunks are asked for.
* FileCreator: a directory that is removed twice while a file is created makes the thread
  fail (`NoThreadFails` is about one removal).

## 4. The theorems

The proofs hold for any number of ports, threads, blocks, files, connections and
failures, from the named assumptions on the constants (`BlockSizeAssumption`,
`BlocksAssumption`, `ConnectionsAssumption`, `SenderAssumption`, `DiskErrorsAssumption`,
`PromptAddSourceAssumption`, `BatchesAssumption`, `PreviousAssumption`,
`SplitAssumption`, `ThreadsAssumption`), which TLC evaluates in the runs.

### The block protocol

All theorems about Transfer rest on `TypeInvariant` (TransferProofs): `TypeInv` is the
types of the variables with `SenderInv` and `ReceiverInv`, what a handler relies on
when it is called: a source at hand exactly in `ADD_SOURCE`, a checkpoint to apply
in `WAIT_NOT_IN_USE`, a connection in every state that reads or writes. Without
them `AddSourceToHistory` could add "no source" to a history, and a read would
index connection 0. The part with content is that checkpoints carry `off + bytes <=
BlockSize`, which `MarkSourceAsFailed` needs to keep offsets inside the block and
which every place that makes a checkpoint has to establish. SenderProofs has one
lemma per operator and one case per handler of the sender; it also sorts the steps of a
sender thread by what they do to the sources (`SenderStepKinds`): nothing, take one from
the queue, add it to the history, or apply a checkpoint. The theorems below have one
lemma for each of these kinds instead of one for each of the twenty handlers.

`NoBlockLost` (OwnershipProofs): `Spec => []EveryBlockOwned`. `OwnershipInv` is
`TypeInv` and the property itself. Its core is a lemma on
`setCheckpointAndReturnToQueue`: each source of the history is among the first
`numBlocks` and stays, or is returned; a refused checkpoint changes nothing. Each
kind of step then moves a block from one place to another; the receiver and the
network touch none of the three.

`NoBlockTwice` and `DequeuedCount` (OwnershipProofs): `Spec => []OwnedOnce` and
`Spec => []DequeuedExact`. Neither is inductive alone: that the counter goes down by
as many as places become free needs the places to be finitely many, and that
`Sender::finish` returns as many sources as it cuts off needs that no two histories
hold the same block. `HoldingInv` has both, with `IsFiniteSet(Taken)`. The counts are
bijections between the places given up and the sources returned (`CutHeld`).

`TypeCorrect` (OwnershipProofs): `Spec => []TypeOK`, from `HoldingInv`; the type of
`dequeued` is the one part of `TypeOK` that needs the count.

`ReceiverChecksHold` (HandshakeProofs): `Spec => []ReceiverChecks`. `HandshakeInv` says
that whatever a receiver thread can read next is SETTINGS unless it has had them
(`SettingsFirst`), that a sender that has written SETTINGS and still reaches the
receiver has them on the way (`SettingsOnTheWay`), and in which states an error is
recorded. The second is what makes the first inductive: a command written behind
lost SETTINGS would be the first one of its stream.

`SkippedBytesArrived` (DeliveryProofs): `Spec => []SkippedBytesDelivered`, for all three
kinds of footers. `TruthInv` says that every checkpoint, wherever it is (the receiver
thread's own, published, taken for relaying, on the wire, read by a sender thread, or
the last one of a history) reports only bytes that have arrived, and that every source
skips only such bytes. A checkpoint outlives the connection and the thread it came
from, so all these places are needed. The theorem does not ask which checkpoint is
applied to which source: it also holds when one is refused, repeated or overtaken.

### The queue

`QueueInvariant` (SourceQueueLemmas, SourceQueueProofs): `QueueInv` says that the blocks
in all places together are exactly those that the files found so far and the
receiver's list of chunks call for (`MadeInv`), that each is in one place, that the
counters agree with the places, where threads and discovery are, that the list of
chunks comes before the first block is taken, and that ids of new files lie between
those of the receiver and the next id (`IdInv`). The hard step is
`setPreviouslyReceivedChunks`, which makes the whole queue anew. From it follow
`CountersExact` (`EveryBlockOnce`), `FilesSentWhole` (`FilesComplete`; that the blocks cut from what
`getRemainingChunks` leaves and the chunks already received make up the file is
`SplitAssumption`, which TLC evaluates) and `SequenceIdsDistinct`
(`SeqIdsDistinct`).

`QueueIsPool`: `Spec => ImplementsPool`. Every action of the queue maps to an action of
BlockPool or to a stutter; a thread that is told "no more blocks" is told so when the
discovery is over and the queue is empty, which is when BlockPool may dismiss it.

### Native handles

`NativeObjectOutlivesUse`, `ListenerHearsOneEnd` and `AbortReaches` (NativeTransferProofs):
`Spec =>` the always of `NoUseAfterFree`, `EndIsLast` and `AbortTakesEffect`. They share an
inductive invariant that says who may hold the read-write lock and the instance lock
at which point of which call, what the states of the native object, of its transfer
threads and of its progress thread say of each other, and that a thread inside the
native object holds the read lock or is the one that closes it. The lock alone does not
give `NoUseAfterFree`: the native threads are not under it, and it is the destructor's
wait for them that does.

### What is only model-checked

The other properties. Liveness under fairness (and ENABLED), what a definition
computes by induction over its data (merging of chunks, encodings, the parsing of the
log), and anything about RECURSIVE operators are not within the prover's reach and stay
with TLC. `SuccessMeansDelivered` is not a theorem of the model: `seq_id_zero` and
`tags_two_ports` refute it for some footers, and without `PromptAddSource` a late
`addSource` does.

## 5. Not modelled

* Options, URLs and flags, the command line, reports and statistics, benchmarks: string
  processing, sums and wording.
* Encryption primitives and the layout of IVs and tags in a stream: calls into OpenSSL.
  What a tag confirms is in ReceiverThread.
* `WebShare.kt` (downloads by a browser), the media store and the layout of the screen; the
  HTTP page, key exchange and terminal of the desktop tool: I/O around the parts that are
  modelled.
* Errors that `getNonRetryableErrCode` reports (they end a thread at once), errors reading a
  source file, heart beats, and checkpoints of protocols without a seqId.
* After a receiver thread has ended well its listening socket stays open until the
  Receiver is destroyed. The model closes it: a sender thread that comes back gets a
  failed connect where the code gets a connect and a read that times out. Both end the
  thread with an error. A DONE acknowledgement whose end-of-stream tag is lost counts
  as lost.
* The threads of one component in the company of another: Transfer takes its queue as a
  set, and SourceQueue its threads as what they do to the queue; BlockPool is what the
  two have in common. A connection lost in the middle of a block is in Transfer, not in
  TransferLog. CommandStream is about one connection.
* Pretty printing and renaming of the log, its file lock, and `keep_transfer_log` off; direct
  I/O and `sync_file_range`; a failing `unlink`, which the code only logs; an abort during the
  last directory read, after which `explore` returns true; files removed by others while a
  session writes them; the throttler's periodic log; a staging directory that stays behind
  when the answer to a push cannot be sent; the second of two threads that finish one
  receiver after `wdtReceiveStart`.
* Branches that only defend against what the other side never does are in the modules and are
  not reached in the passing runs: a list with too many entries (ChunksHandshake), a
  resolved negotiation met twice at the barrier and a negotiation that fails
  (VersionNegotiation) and a misread command (CommandStream), which `stream_header` reaches.
  Two are left out: the checkpoint with `numBlocks` -1, which sends a thread that is
  reconnected to READ_RECEIVER_CMD (`SenderThread.cpp:190`) and which no receiver of the
  modelled versions sends, and `WDT_CHECK_GT` on the negotiated version
  (`SenderThread.cpp:911`), for which VersionNegotiation ends the thread with an error.

--------------------------- MODULE CommandStream ---------------------------
(***************************************************************************)
(* How the commands of a sender thread are found again in the buffer of a  *)
(* receiver thread.  A connection is a stream of bytes without marks: the  *)
(* receiver reads at least kMinBufLength bytes, as many as happen to be    *)
(* there, decodes one command at off_, and keeps the rest for the next.    *)
(* The sender pads the commands after which it waits.  A byte is its       *)
(* position in the stream, counted from the first byte of the command the  *)
(* receiver is at, so that a command read from the wrong place of the      *)
(* buffer is seen; 0 is a byte that was used before.                       *)
(* One connection is modelled: a broken one begins again with numRead_ and *)
(* off_ at 0.  Lengths are scaled down.                                    *)
(***************************************************************************)
EXTENDS Integers, Sequences, SequencesExt

CONSTANTS BufSize, KMinBufLength, KMaxHeader,
          SettingsLens, SizeLens, HeaderLens, DataSizes, FooterLens,
          Resuming,       \* is the sender asking for the receiver's chunks?
          Checksum,       \* is footerType_ CHECKSUM_FOOTER?
          MaxCommands

Largest(S) == CHOOSE n \in S : \A m \in S : m <= n
Least(m, n) == IF m < n THEN m ELSE n

(* What the constants of Protocol.h satisfy: 256 + 11 + 11 <= 4150. *)
LengthsAssumption ==
    /\ KMaxHeader >= KMinBufLength + Largest(FooterLens) + Largest(SizeLens)
    /\ BufSize >= KMaxHeader

VARIABLES cmds,      \* the commands written and not yet handled
          sent,      \* how many commands the sender has written
          spc,       \* what the sender does next
          sized,     \* totalSizeSent_
          taken,     \* position of the last byte the receiver has read
          buf, off, oldOffset, numRead,
          want,      \* arguments of the running readAtLeast
          written,   \* writer.getTotalWritten()
          pc         \* what the receiver does next

vars == <<cmds, sent, spc, sized, taken, buf, off, oldOffset, numRead, want, written, pc>>

Cells == 0 .. (BufSize - 1)
NoRead == [base |-> 0, max |-> 0, atLeast |-> 0, then |-> "next"]

Init ==
    /\ cmds = <<>> /\ sent = 0 /\ spc = "settings" /\ sized = FALSE
    /\ taken = 0 /\ buf = [i \in Cells |-> 0]
    /\ off = 0 /\ oldOffset = 0 /\ numRead = 0
    /\ want = NoRead /\ written = 0 /\ pc = "next"

(***************************************************************************)
(* The sender.  A command has a name, the length of its encoding (the      *)
(* header for a block), the size of the block and of its footer, and the   *)
(* number of bytes written for it.                                         *)
(***************************************************************************)
Write(cmd, len, data, foot, wire) ==
    /\ sent < MaxCommands
    /\ sent' = sent + 1
    /\ cmds' = Append(cmds, [cmd |-> cmd, len |-> len, data |-> data, foot |-> foot,
                             wire |-> wire])

(* The receiver answers settings that ask for chunks, and the sender reads *)
(* the answer before it sends more: it writes kMinBufLength bytes.         *)
SendSettings ==
    /\ spc = "settings"
    /\ \E len \in SettingsLens :
           Write("settings", len, 0, 0, IF Resuming THEN KMinBufLength ELSE len)
    /\ spc' = IF Resuming THEN "chunks" ELSE "blocks"
    /\ UNCHANGED sized

SendSizeCmd ==
    /\ spc = "blocks" /\ ~sized
    /\ sent + 1 < MaxCommands
    /\ \E len \in SizeLens : Write("size", len, 0, 0, len)
    /\ sized' = TRUE
    /\ UNCHANGED spc

SendOneByteSource ==
    /\ spc = "blocks"
    /\ sent + 1 < MaxCommands
    /\ \E len \in HeaderLens, data \in DataSizes,
          foot \in IF Checksum THEN FooterLens ELSE {0} :
           Write("file", len, data, foot, len + data + foot)
    /\ UNCHANGED <<spc, sized>>

SendDoneCmd ==
    /\ spc = "blocks"
    /\ Write("done", 1, 0, 0, KMinBufLength)
    /\ spc' = "done"
    /\ UNCHANGED sized

Sender ==
    /\ SendSettings \/ SendSizeCmd \/ SendOneByteSource \/ SendDoneCmd
    /\ UNCHANGED <<taken, buf, off, oldOffset, numRead, want, written, pc>>

(***************************************************************************)
(* The receiver.  readAtLeast(buf_ + base, max, atLeast, len) checks its   *)
(* arguments, then reads what there is behind the len bytes that it        *)
(* already has, until there are atLeast.                                   *)
(***************************************************************************)
Cur == Head(cmds)
Room == BufSize - off

(* Number of bytes that are on their way. *)
Arriving == FoldLeft(LAMBDA n, c : n + c.wire, 0, cmds) - taken

ReadAtLeast(base, max, atLeast, then) ==
    LET checked == numRead >= 0 /\ atLeast <= max
        enough == numRead >= atLeast
    IN  /\ pc' = IF ~checked THEN "check_failed" ELSE IF enough THEN then ELSE "reading"
        /\ want' = IF checked /\ ~enough
                   THEN [base |-> base, max |-> max, atLeast |-> atLeast, then |-> then]
                   ELSE want

Read ==
    /\ pc = "reading"
    /\ \E n \in 1 .. Least(want.max - numRead, Arriving) :
           /\ buf' = [i \in Cells |->
                        IF i \in (want.base + numRead) .. (want.base + numRead + n - 1)
                        THEN taken + 1 + i - (want.base + numRead)
                        ELSE buf[i]]
           /\ numRead' = numRead + n
           /\ taken' = taken + n
    /\ IF numRead' >= want.atLeast
       THEN pc' = want.then /\ want' = NoRead
       ELSE UNCHANGED <<pc, want>>
    /\ UNCHANGED <<cmds, sent, spc, sized, off, oldOffset, written>>

(* The n bytes of the buffer from cell i are the bytes of the stream from  *)
(* position p.                                                             *)
Holds(i, p, n) == \A k \in 0 .. (n - 1) : i + k \in Cells /\ buf[i + k] = p + k

Misread ==
    /\ pc' = "misread"
    /\ UNCHANGED <<cmds, spc, taken, buf, off, oldOffset, numRead, want, written>>

ReadNextCmd ==
    /\ pc = "next"
    /\ oldOffset' = off
    /\ ReadAtLeast(off, Room, KMinBufLength, "cmd")
    /\ UNCHANGED <<cmds, sent, spc, sized, taken, buf, off, numRead, written>>

(* The command at off_ is the one the sender wrote. *)
At(cmd) == pc = "cmd" /\ Cur.cmd = cmd

(* The receiver is done with the command: positions count from the next. *)
Rebase(b) ==
    /\ cmds' = Tail(cmds)
    /\ taken' = taken - Cur.wire
    /\ buf' = [i \in Cells |-> IF b[i] > Cur.wire THEN b[i] - Cur.wire ELSE 0]
    /\ pc' = "next"

(* off_ and numRead_ behind a command of len bytes. *)
Consume(len) ==
    /\ off' = off + len
    /\ numRead' = numRead - len
    /\ Rebase(buf)

Restart ==
    /\ off' = 0
    /\ numRead' = 0
    /\ Rebase([i \in Cells |-> 0])

ProcessSettingsCmd ==
    /\ At("settings")
    /\ IF ~Holds(off, 1, Cur.len)
       THEN Misread
       ELSE /\ IF Resuming
               THEN Restart /\ spc' = "blocks"
               ELSE Consume(Cur.len) /\ UNCHANGED spc
            /\ UNCHANGED <<oldOffset, want, written>>
    /\ UNCHANGED <<sent, sized>>

ProcessSizeCmd ==
    /\ At("size")
    /\ IF ~Holds(off, 1, Cur.len)
       THEN Misread
       ELSE Consume(Cur.len) /\ UNCHANGED <<spc, oldOffset, want, written>>
    /\ UNCHANGED <<sent, sized>>

(* The rest of a header that is longer than what was read. *)
ProcessFileCmd ==
    /\ At("file")
    /\ IF Cur.len > numRead
       THEN LET end == oldOffset + numRead
            IN  ReadAtLeast(end, BufSize - end, Cur.len, "header")
       ELSE pc' = "header" /\ UNCHANGED want
    /\ UNCHANGED <<cmds, sent, spc, sized, taken, buf, off, oldOffset, numRead, written>>

(* Decodes the header and writes what the buffer holds of the block. *)
DecodeHeader ==
    /\ pc = "header"
    /\ LET toWrite == Least(numRead - Cur.len, Cur.data)
       IN  IF ~Holds(oldOffset, 1, Cur.len + toWrite)
           THEN Misread
           ELSE /\ off' = oldOffset + Cur.len + toWrite
                /\ written' = toWrite
                /\ pc' = "data"
                /\ UNCHANGED <<cmds, spc, taken, buf, oldOffset, numRead, want>>
    /\ UNCHANGED <<sent, sized>>

(* The rest of the block goes through the buffer from its start. *)
ReadAtMost ==
    /\ pc = "data" /\ written < Cur.data
    /\ \E n \in 1 .. Least(Least(BufSize, Cur.data - written), Arriving) :
           /\ taken' = taken + n
           /\ written' = written + n
           /\ buf' = [i \in Cells |-> IF i < n THEN 0 ELSE buf[i]]
    /\ pc' = IF taken = Cur.len + written THEN "data" ELSE "misread"
    /\ UNCHANGED <<cmds, sent, spc, sized, off, oldOffset, numRead, want>>

(* What is left behind the block stays where it is, or moves to the start  *)
(* of the buffer when it is short and far from it.                         *)
Leftover_OneLess == numRead + oldOffset - off - 1

Leftover == numRead + oldOffset - off

Moves == Leftover < KMaxHeader /\ off > BufSize \div 2

Moved == [i \in Cells |-> IF i < Leftover THEN buf[off + i] ELSE 0]

BlockWritten ==
    /\ pc = "data" /\ written = Cur.data
    /\ numRead' = Leftover
    /\ off' = IF Leftover = 0 \/ Moves THEN 0 ELSE off
    /\ LET b == IF Leftover > 0 /\ Moves THEN Moved ELSE buf
       IN  IF Checksum
           THEN pc' = "footer" /\ buf' = b /\ UNCHANGED <<cmds, taken>>
           ELSE Rebase(b)
    /\ written' = 0
    /\ UNCHANGED <<sent, spc, sized, oldOffset, want>>

ReadFooter ==
    /\ pc = "footer"
    /\ oldOffset' = off
    /\ ReadAtLeast(off, Room, KMinBufLength, "checksum")
    /\ UNCHANGED <<cmds, sent, spc, sized, taken, buf, off, numRead, written>>

ProcessFooter ==
    /\ pc = "checksum"
    /\ LET at == 1 + Cur.len + Cur.data
       IN  IF ~Holds(off, at, Cur.foot)
           THEN Misread
           ELSE Consume(Cur.foot) /\ UNCHANGED <<spc, oldOffset, want, written>>
    /\ UNCHANGED <<sent, sized>>

(* The answer to a DONE_CMD: the end of the session, or the checkpoint of  *)
(* another port, after which the sender has more blocks to send.           *)
ProcessDoneCmd ==
    /\ At("done")
    /\ IF numRead # KMinBufLength \/ ~Holds(off, 1, 1)
       THEN Misread
       ELSE /\ \/ /\ pc' = "end" /\ spc' = "end"
                  /\ UNCHANGED <<cmds, taken, buf, off, numRead>>
               \/ sent < MaxCommands /\ Restart /\ spc' = "blocks"
            /\ UNCHANGED <<oldOffset, want, written>>
    /\ UNCHANGED <<sent, sized>>

Receiver ==
    \/ ReadNextCmd \/ Read
    \/ ProcessSettingsCmd \/ ProcessSizeCmd \/ ProcessDoneCmd
    \/ ProcessFileCmd \/ DecodeHeader \/ ReadAtMost \/ BlockWritten
    \/ ReadFooter \/ ProcessFooter

Next == Sender \/ Receiver

Spec == Init /\ [][Next]_vars

(* Both threads run, and the network delivers what was written. *)
FairSpec == Spec /\ WF_vars(Sender) /\ WF_vars(Receiver)

(***************************************************************************)
(* Properties                                                              *)
(***************************************************************************)
(***************************************************************************)
(* However the bytes arrive, the receiver decodes every command from the   *)
(* bytes that the sender wrote for it, and a file gets the bytes of its    *)
(* block: off_ and numRead_ are right behind every command, the leftover   *)
(* is moved without loss, and a DONE_CMD is found alone in the buffer.     *)
(***************************************************************************)
NeverMisread == pc # "misread"

(***************************************************************************)
(* The receiver gets to the end of the stream: it never waits for more     *)
(* bytes than the sender writes before it waits itself.                    *)
(***************************************************************************)
EveryCommandHandled == <>(pc = "end")
=============================================================================

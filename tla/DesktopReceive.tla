--------------------------- MODULE DesktopReceive ---------------------------
(***************************************************************************)
(* The desktop tool saving what it receives: awdt receive, which handles   *)
(* one push after the other, and awdt get, each a process of its own, all  *)
(* writing into one folder.  A transfer goes into a staging folder; when   *)
(* it is complete its files are moved to the folder, under free names.     *)
(***************************************************************************)
EXTENDS Naturals, FiniteSets

CONSTANTS
    Pushes,         \* the pushes one awdt receive handles
    Gets,           \* the awdt get processes
    Names,          \* the names of the files each of them receives
    Nobody,
    MaxCopies       \* bound: the number a name is extended with

VARIABLES
    pc,         \* where each reception is
    staging,    \* the files in its staging folder; Absent: there is none
    todo,       \* the files moveReceived has still to move
    copy,       \* the file being moved, and the name tried: i of "name (i)"
    folder,     \* what is saved: <<name, i>> -> whose file it is
    saved,      \* the names each one has saved its files under
    usualPorts, \* who listens on WDT's usual ports
    busy,       \* the push awdt receive is handling
    raced       \* history: <<x, r, q>>, q had found x free, which r took

vars == <<pc, staging, todo, copy, folder, saved, usualPorts, busy, raced>>

Receptions == Pushes \cup Gets
Absent == {"absent"}
NoCopy == [name |-> "none", i |-> 0]

Init ==
    /\ pc = [r \in Receptions |-> "new"]
    /\ staging = [r \in Receptions |-> Absent]
    /\ todo = [r \in Receptions |-> {}] /\ copy = [r \in Receptions |-> NoCopy]
    /\ folder = <<>> /\ saved = [r \in Receptions |-> {}]
    /\ usualPorts = Nobody /\ busy = Nobody /\ raced = {}

Goto(r, where) == pc' = [pc EXCEPT ![r] = where]
SetStaging(r, files) == staging' = [staging EXCEPT ![r] = files]

(* Back to the loop of cmdReceive, or the end of cmdGet. *)
Over(r, result) ==
    /\ Goto(r, result)
    /\ busy' = IF busy = r THEN Nobody ELSE busy
    /\ usualPorts' = IF usualPorts = r THEN Nobody ELSE usualPorts

(* accept() in cmdReceive: one push at a time; or awdt get is run. *)
Begin(r) ==
    /\ pc[r] = "new" /\ (r \in Pushes => busy = Nobody)
    /\ Goto(r, "handshake")
    /\ busy' = IF r \in Pushes THEN r ELSE busy
    /\ UNCHANGED <<staging, todo, copy, folder, saved, usualPorts, raced>>

(* PUSH and the user's answer within a minute; HELLO and OFFER.  Then      *)
(* newStaging.                                                             *)
Handshake(r) ==
    /\ pc[r] = "handshake"
    /\ \/ Over(r, "failed") /\ UNCHANGED staging
       \/ SetStaging(r, {}) /\ Goto(r, "start") /\ UNCHANGED <<busy, usualPorts>>
    /\ UNCHANGED <<todo, copy, folder, saved, raced>>

(* startReceiver: the usual ports, or any *)
StartReceiver(r) ==
    /\ pc[r] = "start"
    /\ \/ usualPorts = Nobody /\ usualPorts' = r /\ Goto(r, "tell") /\ UNCHANGED <<staging, busy>>
       \/ usualPorts # Nobody /\ Goto(r, "tell") /\ UNCHANGED <<staging, busy, usualPorts>>
       \/ Over(r, "failed") /\ SetStaging(r, Absent)
    /\ UNCHANGED <<todo, copy, folder, saved, raced>>

(* ACCEPT or RECEIVER; when the connection is lost the staging folder is   *)
(* not removed.                                                            *)
Tell(r) ==
    /\ pc[r] = "tell"
    /\ \/ Over(r, "failed")
       \/ Goto(r, "receive") /\ UNCHANGED <<busy, usualPorts>>
    /\ UNCHANGED <<staging, todo, copy, folder, saved, raced>>

(* The receiver writes a file. *)
FileArrives(r) ==
    /\ pc[r] = "receive"
    /\ \E n \in Names \ staging[r] : SetStaging(r, staging[r] \cup {n})
    /\ UNCHANGED <<pc, todo, copy, folder, saved, usualPorts, busy, raced>>

(* finishReceive: the transfer failed, or all files are there. *)
Finish(r) ==
    /\ pc[r] = "receive"
    /\ \/ Over(r, "failed") /\ SetStaging(r, Absent) /\ UNCHANGED todo
       \/ /\ staging[r] = Names
          /\ todo' = [todo EXCEPT ![r] = Names] /\ Goto(r, "move")
          /\ UNCHANGED <<staging, busy, usualPorts>>
    /\ UNCHANGED <<copy, folder, saved, raced>>

(* moveReceived: the next file ... *)
NextFile(r) ==
    /\ pc[r] = "move"
    /\ \E n \in todo[r] : copy' = [copy EXCEPT ![r] = [name |-> n, i |-> 0]]
    /\ Goto(r, "probe")
    /\ UNCHANGED <<staging, todo, folder, saved, usualPorts, busy, raced>>

(* ... the first of its names that does not exist ... *)
Probe_Overwrites(r) ==
    /\ pc[r] = "probe"
    /\ Goto(r, "rename") /\ UNCHANGED copy
    /\ UNCHANGED <<staging, todo, folder, saved, usualPorts, busy, raced>>

Probe(r) ==
    /\ pc[r] = "probe"
    /\ LET exists == <<copy[r].name, copy[r].i>> \in DOMAIN folder
       IN  \/ /\ exists /\ copy[r].i < MaxCopies
              /\ copy' = [copy EXCEPT ![r].i = @ + 1]
              /\ UNCHANGED pc
           \/ ~exists /\ Goto(r, "rename") /\ UNCHANGED copy
    /\ UNCHANGED <<staging, todo, folder, saved, usualPorts, busy, raced>>

(* ... and rename(), which replaces a file of that name. *)
Rename(r) ==
    /\ pc[r] = "rename"
    /\ LET target == <<copy[r].name, copy[r].i>>
       IN  /\ folder' = [x \in DOMAIN folder \cup {target} |-> IF x = target THEN r ELSE folder[x]]
           /\ saved' = [saved EXCEPT ![r] = @ \cup {target}]
           /\ raced' = raced \cup
                  {<<target, r, q>> : q \in {p \in Receptions \ {r} :
                                               pc[p] = "rename" /\ copy[p] = copy[r]}}
    /\ SetStaging(r, staging[r] \ {copy[r].name})
    /\ todo' = [todo EXCEPT ![r] = @ \ {copy[r].name}]
    /\ copy' = [copy EXCEPT ![r] = NoCopy]
    /\ Goto(r, "move")
    /\ UNCHANGED <<usualPorts, busy>>

(* An operation on the files throws: the rest stays in the staging folder. *)
MoveFails(r) ==
    /\ pc[r] \in {"probe", "rename"}
    /\ Over(r, "error")
    /\ UNCHANGED <<staging, todo, copy, folder, saved, raced>>

(* All are moved: remove_all(staging). *)
Moved(r) ==
    /\ pc[r] = "move" /\ todo[r] = {}
    /\ SetStaging(r, Absent)
    /\ Over(r, "done")
    /\ UNCHANGED <<todo, copy, folder, saved, raced>>

Step(r) ==
    Handshake(r) \/ StartReceiver(r) \/ Tell(r) \/ Finish(r) \/ NextFile(r) \/ Probe(r)
        \/ Rename(r) \/ MoveFails(r) \/ Moved(r)

Next == \E r \in Receptions : Begin(r) \/ FileArrives(r) \/ Step(r)

Spec == Init /\ [][Next]_vars

(* Each wait of the handshake ends, and a receiver gives up in the end. *)
FairSpec == Spec /\ \A r \in Receptions : WF_vars(Step(r)) /\ SF_vars(Begin(r))

-----------------------------------------------------------------------------
(* moveReceived: "renaming instead of overwriting".  A file that was       *)
(* received and saved stays what it is whatever is received later.  Only a *)
(* process that had already found the name free when it was taken, and had *)
(* yet to rename, replaces it; no file that was saved is removed.          *)
NothingOverwritten ==
    \A r \in Receptions : \A x \in saved[r] :
        x \in DOMAIN folder /\ (folder[x] = r \/ <<x, r, folder[x]>> \in raced)

(* A push that waits gets its turn: awdt receive goes on after each push,  *)
(* whatever happened to it.                                                *)
EveryPushHandled == \A r \in Receptions : <>(pc[r] \in {"done", "failed", "error"})
=============================================================================

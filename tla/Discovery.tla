----------------------------- MODULE Discovery -----------------------------
(***************************************************************************)
(* DirectorySourceQueue::explore: the traversal of the source directory,   *)
(* with symbolic links that may form cycles or lead to the same directory  *)
(* twice, file systems that do not say what an entry is, and calls that    *)
(* fail.  What createIntoQueue makes of a file that was found is the       *)
(* subject of SourceQueue.                                                 *)
(***************************************************************************)
EXTENDS Naturals, Sequences, FiniteSets, SequencesExt

CONSTANTS
    Entries,        \* the entries of the directories on the disk: records with
                    \* the directory they are in, their name, their kind and,
                    \* for a link, where it leads (an entry or the root)
    Root,
    FollowSymlinks,
    UnknownTypes,   \* the file system returns DT_UNKNOWN for everything
    Excluded, Pruned,   \* the names exclude_regex and prune_dir_regex match
    MaxFaults       \* bound on failing calls

VARIABLES
    todoList,   \* relative paths of directories
    visited,    \* full paths of directories
    cur,        \* the directory that is being read
    left,       \* its entries that readdir has not returned
    hasError,
    failedDirectories,
    found,      \* the files given to createIntoQueue
    pc,
    aborted, faults

vars == <<todoList, visited, cur, left, hasError, failedDirectories, found, pc,
          aborted, faults>>

-----------------------------------------------------------------------------
(* The file system.  A place is the root or an entry that is no link; its  *)
(* real path is the sequence of names that leads to it without links.      *)

In(place) == {e \in Entries : e.dir = place}

Target(e) == IF e.kind = "link" THEN e.to ELSE e.name

Kind(place) ==
    IF place = Root THEN "dir"
    ELSE (CHOOSE e \in Entries : e.name = place /\ e.kind # "link").kind

Parent(place) == (CHOOSE e \in Entries : e.name = place /\ e.kind # "link").dir

RealPath[n \in 0 .. Cardinality(Entries), place \in {Root} \cup {e.name : e \in Entries}] ==
    IF place = Root \/ n = 0 THEN <<>>
    ELSE Append(RealPath[n - 1, Parent(place)], place)

ResolvePath(place) == RealPath[Cardinality(Entries), place]

(* Where an entry of a directory, and where a relative path, leads. *)
Leads == [x \in {<<e.dir, e.name>> : e \in Entries} |->
             Target(CHOOSE e \in Entries : e.dir = x[1] /\ e.name = x[2])]

PlaceOf(path) == FoldLeft(LAMBDA p, name : Leads[<<p, name>>], Root, path)

-----------------------------------------------------------------------------
Init ==
    /\ todoList = << <<>> >>
    /\ visited = {}
    /\ cur = <<>> /\ left = {}
    /\ hasError = FALSE /\ failedDirectories = {}
    /\ found = {}
    /\ pc = "next"
    /\ aborted = FALSE /\ faults = 0

Fault ==
    /\ faults < MaxFaults
    /\ faults' = faults + 1

(* The abort checker, read before a directory and before an entry. *)
Abort ==
    /\ pc # "done" /\ ~aborted /\ Fault
    /\ aborted' = TRUE
    /\ UNCHANGED <<todoList, visited, cur, left, hasError, failedDirectories,
                   found, pc>>

OpenDir ==
    /\ pc = "next" /\ todoList # <<>> /\ ~aborted
    /\ todoList' = Tail(todoList)
    /\ cur' = Head(todoList)
    /\ \/ /\ left' = In(PlaceOf(Head(todoList)))
          /\ pc' = "read"
          /\ UNCHANGED <<hasError, failedDirectories, faults>>
       \/ /\ Fault
          /\ hasError' = TRUE
          /\ failedDirectories' = failedDirectories \cup {Head(todoList)}
          /\ left' = {}
          /\ UNCHANGED pc
    /\ UNCHANGED <<visited, found, aborted>>

(* readdir returns nothing more, fails, or is not called any more. *)
CloseDir ==
    /\ pc = "read"
    /\ \/ (left = {} \/ aborted) /\ UNCHANGED <<hasError, faults>>
       \/ Fault /\ hasError' = TRUE
    /\ left' = {}
    /\ pc' = "next"
    /\ UNCHANGED <<todoList, visited, cur, failedDirectories, found, aborted>>

FinishExplore_Early ==
    /\ pc = "next"
    /\ Len(todoList) <= 1 \/ aborted
    /\ pc' = "done"
    /\ UNCHANGED <<todoList, visited, cur, left, hasError, failedDirectories, found,
                   aborted, faults>>

FinishExplore ==
    /\ pc = "next"
    /\ todoList = <<>> \/ aborted
    /\ hasError' = (hasError \/ (todoList # <<>>))
    /\ pc' = "done"
    /\ UNCHANGED <<todoList, visited, cur, left, failedDirectories, found, aborted,
                   faults>>

-----------------------------------------------------------------------------
(* One entry *)

Skip == UNCHANGED <<todoList, visited, found, hasError>>
SkipWithError == hasError' = TRUE /\ UNCHANGED <<todoList, visited, found>>

(* What d_type says; a link is dropped unless links are followed. *)
KeepEntry(e) == UnknownTypes \/ e.kind \in {"dir", "file"}
                             \/ (FollowSymlinks /\ e.kind = "link")

IsDir(e) == e.kind = "dir" \/ (FollowSymlinks /\ e.kind = "link" /\ Kind(e.to) = "dir")
IsFile(e) == e.kind = "file" \/ (FollowSymlinks /\ e.kind = "link" /\ Kind(e.to) = "file")

(* Only the path of a link is resolved: a directory below a link has the   *)
(* path that led to it.                                                    *)
FullPath(e, path) ==
    IF FollowSymlinks /\ e.kind = "link" THEN ResolvePath(e.to) ELSE path

FoundFile(e, path) ==
    IF e.name \in Excluded THEN Skip
    ELSE /\ found' = found \cup {[path |-> path, file |-> Target(e)]}
         /\ UNCHANGED <<todoList, visited, hasError>>

Push(e, path) ==
    IF e.name \in Pruned THEN UNCHANGED todoList
                         ELSE todoList' = Append(todoList, path)

FoundDir(e, path) ==
    IF FollowSymlinks /\ FullPath(e, path) \in visited
    THEN SkipWithError
    ELSE /\ Push(e, path)
         /\ visited' = IF FollowSymlinks THEN visited \cup {FullPath(e, path)}
                                         ELSE visited
         /\ UNCHANGED <<found, hasError>>

(* lstat, stat and realpath are called for what is not known to be a       *)
(* directory.                                                              *)
MayFail(e) == KeepEntry(e) /\ (UnknownTypes \/ e.kind # "dir")

ReadEntry ==
    /\ pc = "read" /\ ~aborted
    /\ \E e \in left :
          LET path == Append(cur, e.name) IN
          /\ left' = left \ {e}
          /\ \/ ~KeepEntry(e) /\ Skip /\ UNCHANGED faults
             \/ KeepEntry(e) /\ IsFile(e) /\ FoundFile(e, path) /\ UNCHANGED faults
             \/ KeepEntry(e) /\ IsDir(e) /\ FoundDir(e, path) /\ UNCHANGED faults
             \/ /\ KeepEntry(e) /\ ~IsFile(e) /\ ~IsDir(e)
                /\ Skip /\ UNCHANGED faults
             \/ MayFail(e) /\ Fault /\ SkipWithError
    /\ UNCHANGED <<cur, failedDirectories, pc, aborted>>

Next == Abort \/ OpenDir \/ CloseDir \/ FinishExplore \/ ReadEntry

Spec == Init /\ [][Next]_vars

FairSpec == Spec /\ WF_vars(OpenDir \/ CloseDir \/ FinishExplore \/ ReadEntry)

-----------------------------------------------------------------------------
(* What a complete traversal finds *)

Successors(p) ==
    {Target(e) : e \in {x \in In(p) : KeepEntry(x) /\ IsDir(x) /\ x.name \notin Pruned}}

ReachableDirs[n \in 0 .. Cardinality(Entries)] ==
    IF n = 0 THEN {Root}
    ELSE LET before == ReachableDirs[n - 1]
         IN  before \cup UNION {Successors(p) : p \in before}

ReachableFiles ==
    LET reachable == ReachableDirs[Cardinality(Entries)]
    IN  {Target(e) : e \in {x \in Entries :
            x.dir \in reachable /\ KeepEntry(x) /\ IsFile(x) /\ x.name \notin Excluded}}

-----------------------------------------------------------------------------
(* When no call fails, every file that is not excluded is found in every   *)
(* directory that is not pruned, although a directory that links lead to   *)
(* is entered by one of the paths only.                                    *)
EveryFileFound ==
    pc = "done" /\ faults = 0 =>
        {x.file : x \in found} = ReachableFiles

(* Discovery ends, and with it the wait of the sender threads. *)
Ends == <>(pc = "done")
=============================================================================

----------------------------- MODULE FileWriter -----------------------------
(***************************************************************************)
(* server::FileWriter at the level of its system calls.  Several runs of   *)
(* the server share one directory, each with several sessions and so       *)
(* several FileWriters; a run is one thread, but the calls of different    *)
(* runs interleave.  A run may crash between any two calls, and the power  *)
(* may fail.                                                               *)
(*                                                                         *)
(* A file is known by the writer that created it, its contents by their    *)
(* length.  The directory is cached: `disk' is what the file system has    *)
(* journalled of it, in order, at some moment of its choice; the bytes of  *)
(* a file are sure to be on the disk once fsync returned.                  *)
(* Nobody but the program touches the directory.                           *)
(***************************************************************************)
EXTENDS Integers

CONSTANTS
    Writers,      \* FileWriter objects, one per file received
    Procs,        \* runs of the server program
    ProcOf,       \* the run a writer belongs to
    Pids,
    PidOf,        \* getpid() of a run; not unique: numbers are used again, and
                  \* two containers that share the directory may both run as 1
    Size,         \* how long a writer's file is when its session commits it
    Stamps,       \* util::fileTimestamp, to the second
    MaxSuffix,    \* 1000 in the code
    MaxLosses,    \* bound: power failures
    NoPath        \* the empty m_tempPath

TempNames == [pid : Pids, seq : Nat]
FinalNames == [stamp : Stamps, suffix : 0..(MaxSuffix - 1)]

ASSUME WriterAssumption ==
    /\ ProcOf \in [Writers -> Procs]
    /\ PidOf \in [Procs -> Pids]
    /\ Size \in [Writers -> Nat]
    /\ MaxSuffix \in Nat \ {0}
    /\ NoPath \notin [pid : Pids, seq : Nat]

VARIABLES
    dir,       \* the directory: name to file
    disk,      \* the directory as the disk has it
    size,      \* bytes in a file
    safe,      \* bytes of it on the disk
    alive,     \* runs that go on
    nextSeq,   \* the static counter of nextTempSeq, per run
    wr,        \* the FileWriter objects: their calls and m_tempPath
    stuck,     \* writers whose temporary file could not be unlinked
    losses     \* power failures so far

vars == <<dir, disk, size, safe, alive, nextSeq, wr, stuck, losses>>

\* Where a writer is: not opened; receiving; in commit's loop before link; after
\* link; failed, before abort; done.
NewWriter == [pc |-> "new", temp |-> NoPath, stamp |-> 0, suffix |-> 0,
              result |-> "none"]

WriterType ==
    [pc : {"new", "open", "link", "unlink", "abort", "done"},
     temp : TempNames \cup {NoPath}, stamp : Stamps \cup {0},
     suffix : 0..MaxSuffix, result : {"none", "stored", "error"}]

IsDirectory(d) ==
    /\ DOMAIN d \subseteq TempNames \cup FinalNames
    /\ \A n \in DOMAIN d : d[n] \in Writers

\* Each variable holds values of its type.
TypeOK ==
    /\ IsDirectory(dir) /\ IsDirectory(disk)
    /\ size \in [Writers -> Nat]
    /\ safe \in [Writers -> Nat]
    /\ alive \in [Procs -> BOOLEAN]
    /\ nextSeq \in [Procs -> Nat]
    /\ wr \in [Writers -> WriterType]
    /\ stuck \subseteq Writers
    /\ losses \in Nat

Init ==
    /\ dir = [n \in {} |-> {}] /\ disk = dir
    /\ size = [w \in Writers |-> 0] /\ safe = size
    /\ alive = [p \in Procs |-> TRUE]
    /\ nextSeq = [p \in Procs |-> 0]
    /\ wr = [w \in Writers |-> NewWriter]
    /\ stuck = {} /\ losses = 0

-----------------------------------------------------------------------------
(* The system calls on names.                                              *)

Bound(name) == name \in DOMAIN dir

Bind(name, w) ==
    dir' = [n \in DOMAIN dir \cup {name} |-> IF n = name THEN w ELSE dir[n]]

Unbind(name) == dir' = [n \in DOMAIN dir \ {name} |-> dir[n]]

\* open(O_EXCL) and link() never take a name in use; wrong: rename() and a plain
\* open do.
Anyhow(name) == TRUE
Creates(name) == ~Bound(name)

\* fsync; wrong: nothing is done.
fsyncNot(w) == UNCHANGED safe
fsync(w) == safe' = [safe EXCEPT ![w] = size[w]]

\* unlink(m_tempPath), whose result nobody looks at; wrong: it is forgotten.
RemoveNot(w) == UNCHANGED <<dir, stuck>>
Remove(w) ==
    \/ Unbind(wr[w].temp) /\ UNCHANGED stuck
    \/ stuck' = stuck \cup {w} /\ UNCHANGED dir

-----------------------------------------------------------------------------
(* The operations.                                                         *)

\* The run is one thread: a writer in commit, or failing, is alone in it.
Turn(w) ==
    /\ alive[ProcOf[w]]
    /\ \A v \in Writers \ {w} :
         ProcOf[v] = ProcOf[w] => wr[v].pc \notin {"link", "unlink", "abort"}

Goto(w, pc) == wr' = [wr EXCEPT ![w].pc = pc]

Done(w, result) ==
    wr' = [wr EXCEPT ![w].pc = "done", ![w].temp = NoPath, ![w].result = result]

\* open(): a name of its own for the temporary file, or an error.
Open(w) ==
    LET p == ProcOf[w]
        name == [pid |-> PidOf[p], seq |-> nextSeq[p]]
    IN  /\ Turn(w)
        /\ wr[w].pc = "new"
        /\ nextSeq' = [nextSeq EXCEPT ![p] = @ + 1]
        /\ \/ /\ Creates(name)
              /\ Bind(name, w)
              /\ wr' = [wr EXCEPT ![w].pc = "open", ![w].temp = name]
           \/ /\ Done(w, "error")
              /\ UNCHANGED dir
        /\ UNCHANGED <<disk, size, safe, alive, stuck, losses>>

\* write(): some bytes more, and an error perhaps.
Write(w) ==
    /\ Turn(w)
    /\ wr[w].pc = "open"
    /\ size[w] < Size[w]
    /\ \/ /\ size' = [size EXCEPT ![w] = @ + 1]
          /\ UNCHANGED wr
       \/ /\ Goto(w, "abort")
          /\ UNCHANGED size
    /\ UNCHANGED <<dir, disk, safe, alive, nextSeq, stuck, losses>>

\* commit(), first half: fsync, close, and the second of this moment.
Sync(w) ==
    /\ Turn(w)
    /\ wr[w].pc = "open"
    /\ size[w] = Size[w]
    /\ \/ /\ fsync(w)
          /\ \E now \in Stamps :
               wr' = [wr EXCEPT ![w].pc = "link", ![w].stamp = now]
       \/ /\ Goto(w, "abort")
          /\ UNCHANGED safe
    /\ UNCHANGED <<dir, disk, size, alive, nextSeq, stuck, losses>>

\* Is there a next suffix?  Wrong: one too few.
MoreShort(suffix) == suffix + 1 < MaxSuffix
More(suffix) == suffix < MaxSuffix

\* Any error but EEXIST ends the loop; wrong: it is taken for success.
LinkErrorIgnored(w) == Goto(w, "unlink")
LinkError(w) == Goto(w, "abort")

\* commit(), the loop: one link() each.  It never replaces a name.
Link(w) ==
    LET name == [stamp |-> wr[w].stamp, suffix |-> wr[w].suffix]
        next == wr[w].suffix + 1
    IN  /\ Turn(w)
        /\ wr[w].pc = "link"
        /\ \/ \* the file has its name
              /\ Creates(name) /\ Bound(wr[w].temp)
              /\ Bind(name, dir[wr[w].temp])
              /\ Goto(w, "unlink")
           \/ \* EEXIST
              /\ Bound(name)
              /\ wr' = IF More(next) THEN [wr EXCEPT ![w].suffix = next]
                       ELSE [wr EXCEPT ![w].suffix = MaxSuffix, ![w].pc = "abort"]
              /\ UNCHANGED dir
           \/ LinkError(w) /\ UNCHANGED dir
        /\ UNCHANGED <<disk, size, safe, alive, nextSeq, stuck, losses>>

\* commit(), the end: the temporary name goes, the caller gets the final one.
Unlink(w) ==
    /\ Turn(w)
    /\ wr[w].pc = "unlink"
    /\ Remove(w)
    /\ Done(w, "stored")
    /\ UNCHANGED <<disk, size, safe, alive, nextSeq, losses>>

\* abort(): by Session::fail after an error, or by Session::terminate and the
\* destructor when the session is lost while it receives.
Abort(w) ==
    /\ Turn(w)
    /\ wr[w].pc \in {"open", "abort"}
    /\ Remove(w)
    /\ Done(w, "error")
    /\ UNCHANGED <<disk, size, safe, alive, nextSeq, losses>>

-----------------------------------------------------------------------------
(* The system underneath.                                                  *)

\* A run dies, by a signal or a bug.
Crash(p) ==
    /\ alive[p]
    /\ alive' = [alive EXCEPT ![p] = FALSE]
    /\ UNCHANGED <<dir, disk, size, safe, nextSeq, wr, stuck, losses>>

\* The file system writes the directory back.
Flush ==
    /\ disk # dir
    /\ disk' = dir
    /\ UNCHANGED <<dir, size, safe, alive, nextSeq, wr, stuck, losses>>

\* The power fails: what is not on the disk may be lost, and no run survives
\* but those that come later.
PowerLoss ==
    /\ losses < MaxLosses
    /\ losses' = losses + 1
    /\ dir' = disk
    /\ size' \in {f \in [Writers -> UNION {safe[w]..size[w] : w \in Writers}] :
                    \A w \in Writers : f[w] \in safe[w]..size[w]}
    /\ alive' = [p \in Procs |-> alive[p] /\ nextSeq[p] = 0]
    /\ UNCHANGED <<disk, safe, nextSeq, wr, stuck>>

WriterStep(w) ==
    Open(w) \/ Write(w) \/ Sync(w) \/ Link(w) \/ Unlink(w) \/ Abort(w)

Next ==
    \/ \E w \in Writers : WriterStep(w)
    \/ \E p \in Procs : Crash(p)
    \/ Flush
    \/ PowerLoss

Spec == Init /\ [][Next]_vars

-----------------------------------------------------------------------------
(* Properties.                                                             *)

Alive(w) == alive[ProcOf[w]]

\* The name in m_tempPath is bound to the writer's own file, though names of
\* dead runs and of runs with the same number are around: link and unlink never
\* take another session's file (FileWriter::open, O_EXCL).
TempIsOwn ==
    \A w \in Writers : wr[w].temp # NoPath /\ Alive(w) =>
        Bound(wr[w].temp) /\ dir[wr[w].temp] = w

\* A file under a final name is complete, also after a power failure: its bytes
\* are on the disk before it gets the name (FileWriter::commit).
FilesComplete ==
    \A n \in DOMAIN dir \cap FinalNames : size[dir[n]] = Size[dir[n]]

FinalName(w) == [stamp |-> wr[w].stamp, suffix |-> wr[w].suffix]

\* What the session is told is so: Ok means the file has the name it is told,
\* and no other; an error means that it has none (commit, abort).
ReportsTrue ==
    \A w \in Writers : Alive(w) /\ wr[w].pc = "done" =>
        {n \in DOMAIN dir \cap FinalNames : dir[n] = w} =
            IF wr[w].result = "stored" THEN {FinalName(w)} ELSE {}

\* A temporary name is that of a session that still receives; others are left
\* only by a run that died or a directory that refused to let go (abort, commit,
\* the destructor).
NoLitter ==
    \A n \in DOMAIN dir \cap TempNames :
        \/ ~Alive(dir[n])
        \/ dir[n] \in stuck
        \/ wr[dir[n]].temp = n

\* A file is refused for want of a name only when all names of its second are
\* taken (commit's loop, off by nothing).
RefusedOnlyWhenFull ==
    \A w \in Writers : Alive(w) /\ wr[w].suffix = MaxSuffix =>
        \A s \in 0..(MaxSuffix - 1) : Bound([stamp |-> wr[w].stamp, suffix |-> s])

\* A published file is never replaced nor removed, whoever shares the directory,
\* but by a power failure ("publication cannot overwrite", FileWriter.hpp).
NeverReplaced ==
    [][losses' = losses =>
         \A n \in DOMAIN dir \cap FinalNames : n \in DOMAIN dir' /\ dir'[n] = dir[n]]_vars

-----------------------------------------------------------------------------
(* The inductive invariant behind these properties.                        *)

\* Where a writer is says what it holds.
CallInv(w) ==
    LET x == wr[w]
    IN  /\ x.pc # "new" => nextSeq[ProcOf[w]] > 0
        /\ (x.temp # NoPath) = (x.pc \in {"open", "link", "unlink", "abort"})
        /\ x.pc \in {"new", "open"} => x.suffix = 0
        /\ x.pc \in {"link", "unlink"} \/ x.result = "stored" =>
             x.stamp \in Stamps /\ x.suffix < MaxSuffix
        /\ (x.result # "none") = (x.pc = "done")

\* The bytes of a file are on the disk before it is given a name.
BytesInv(w) ==
    /\ safe[w] <= size[w] /\ size[w] <= Size[w]
    /\ wr[w].pc \in {"link", "unlink"} => safe[w] = Size[w]

\* A directory, cached or on the disk: no name is there before its writer opened,
\* no final name before the bytes.
NamesInv(d) ==
    \A n \in DOMAIN d : /\ wr[d[n]].pc # "new"
                        /\ n \in FinalNames => safe[d[n]] = Size[d[n]]

\* Final names are never taken away, so what is on the disk is still so.
DiskInv ==
    \A n \in DOMAIN disk \cap FinalNames : n \in DOMAIN dir /\ dir[n] = disk[n]

Named(w) == wr[w].pc = "unlink" \/ wr[w].result = "stored"

\* What a writer of a living run may count on in the directory.
OwnInv(w) ==
    /\ wr[w].temp # NoPath => Bound(wr[w].temp) /\ dir[wr[w].temp] = w
    /\ Named(w) => Bound(FinalName(w)) /\ dir[FinalName(w)] = w
    /\ \A n \in DOMAIN dir \cap FinalNames :
         dir[n] = w => Named(w) /\ n = FinalName(w)
    /\ \A s \in 0..(MaxSuffix - 1) :
         s < wr[w].suffix => Bound([stamp |-> wr[w].stamp, suffix |-> s])

\* What the proofs of module FileWriterProofs carry from state to state.
WriterInv ==
    /\ TypeOK
    /\ \A w \in Writers : CallInv(w) /\ BytesInv(w) /\ (Alive(w) => OwnInv(w))
    /\ NamesInv(dir) /\ NamesInv(disk) /\ DiskInv
    /\ NoLitter

-----------------------------------------------------------------------------
\* The directory is an Inbox: one step publishes, reports follow it.
inbox == INSTANCE Inbox WITH
            files <- [n \in DOMAIN dir \cap FinalNames |-> dir[n]],
            verdict <- [w \in Writers |-> wr[w].result]

ImplementsInbox == inbox!InboxSpec
=============================================================================

-------------------------- MODULE FileWriterProofs --------------------------
(***************************************************************************)
(* Storing a file is whole, exclusive and truthfully reported, for any     *)
(* number of runs and files, any use of pids, any stamps and suffixes, any *)
(* failing calls, crashes and power failures: FileWriter implements Inbox. *)
(***************************************************************************)
EXTENDS FileWriter, TLAPS

\* A temporary name is never a final one.
LEMMA NamesApart == \A n \in TempNames : n \notin FinalNames
<1> SUFFICES ASSUME NEW n \in TempNames, n \in FinalNames PROVE FALSE
  OBVIOUS
<1>1. DOMAIN n = {"pid", "seq"}
  BY DEF TempNames
<1>2. DOMAIN n = {"stamp", "suffix"}
  BY DEF FinalNames
<1>3. QED
  BY <1>1, <1>2

\* A name with a suffix that is in a directory is a final name.
LEMMA SuffixedIsFinal ==
    ASSUME NEW d, IsDirectory(d), NEW stamp, NEW s,
           [stamp |-> stamp, suffix |-> s] \in DOMAIN d
    PROVE  [stamp |-> stamp, suffix |-> s] \in FinalNames
<1> DEFINE n == [stamp |-> stamp, suffix |-> s]
<1>1. DOMAIN n = {"stamp", "suffix"}
  OBVIOUS
<1>2. \A m \in TempNames : DOMAIN m = {"pid", "seq"}
  BY DEF TempNames
<1>3. n \notin TempNames
  BY <1>1, <1>2
<1>4. QED
  BY <1>3 DEF IsDirectory

LEMMA BindValue ==
    ASSUME IsDirectory(dir), NEW w \in Writers,
           NEW name \in TempNames \cup FinalNames, Bind(name, w)
    PROVE  /\ IsDirectory(dir')
           /\ DOMAIN dir' = DOMAIN dir \cup {name}
           /\ dir'[name] = w
           /\ \A n \in DOMAIN dir \ {name} : dir'[n] = dir[n]
BY DEF Bind, IsDirectory

LEMMA UnbindValue ==
    ASSUME IsDirectory(dir), NEW name, Unbind(name)
    PROVE  /\ IsDirectory(dir')
           /\ DOMAIN dir' = DOMAIN dir \ {name}
           /\ \A n \in DOMAIN dir \ {name} : dir'[n] = dir[n]
BY DEF Unbind, IsDirectory

-----------------------------------------------------------------------------
(* What a step of writer w leaves alone.                                   *)

DirStep(w) ==
    /\ IsDirectory(dir')
    /\ \A n \in DOMAIN dir : dir[n] # w \/ n \in FinalNames =>
         n \in DOMAIN dir' /\ dir'[n] = dir[n]
    /\ \A n \in DOMAIN dir' :
         dir'[n] = w \/ (n \in DOMAIN dir /\ dir'[n] = dir[n])

OwnStep(w) ==
    /\ wr' \in [Writers -> WriterType] /\ wr'[w].pc # "new"
    /\ size' \in [Writers -> Nat] /\ safe' \in [Writers -> Nat]
    /\ \A v \in Writers \ {w} :
         wr'[v] = wr[v] /\ size'[v] = size[v] /\ safe'[v] = safe[v]
    /\ nextSeq' \in [Procs -> Nat] /\ \A p \in Procs : nextSeq'[p] >= nextSeq[p]
    /\ stuck \subseteq stuck' /\ stuck' \subseteq Writers
    /\ UNCHANGED <<disk, alive, losses>>
    /\ DirStep(w)

\* What is left to show of w itself.
Fits(w) ==
    /\ safe[w] = Size[w] => safe'[w] = Size[w]
    /\ \A n \in DOMAIN dir' : dir'[n] = w =>
         /\ n \in FinalNames => safe'[w] = Size[w]
         /\ n \in TempNames => w \in stuck' \/ wr'[w].temp = n

LEMMA OthersKeep ==
    ASSUME WriterInv, NEW w \in Writers, OwnStep(w),
           NEW v \in Writers \ {w}, Alive(v)'
    PROVE  OwnInv(v)'
<1>1. Alive(v) /\ wr'[v] = wr[v] /\ OwnInv(v)
  BY DEF WriterInv, OwnStep, Alive
<1>2. wr[v].temp # NoPath => wr[v].temp \in DOMAIN dir' /\ dir'[wr[v].temp] = v
  BY <1>1 DEF OwnInv, OwnStep, DirStep, Bound
<1>3. wr[v].stamp \in Stamps /\ wr[v].suffix < MaxSuffix => FinalName(v) \in FinalNames
  <2>1. wr[v].suffix \in Nat /\ MaxSuffix \in Nat
    BY WriterAssumption DEF WriterInv, TypeOK, WriterType
  <2>2. QED
    BY <2>1 DEF FinalName, FinalNames
<1>4. Named(v) => FinalName(v) \in DOMAIN dir' /\ dir'[FinalName(v)] = v
  <2>1. Named(v) => FinalName(v) \in FinalNames
    BY <1>3 DEF WriterInv, CallInv, Named
  <2>2. QED
    BY <1>1, <2>1 DEF OwnInv, OwnStep, DirStep, Bound
<1>5. \A n \in DOMAIN dir' \cap FinalNames : dir'[n] = v => Named(v) /\ n = FinalName(v)
  BY <1>1 DEF OwnInv, OwnStep, DirStep
<1>6. \A s \in 0..(MaxSuffix - 1) :
         s < wr[v].suffix => [stamp |-> wr[v].stamp, suffix |-> s] \in DOMAIN dir'
  <2> SUFFICES ASSUME NEW s \in 0..(MaxSuffix - 1), s < wr[v].suffix
               PROVE  [stamp |-> wr[v].stamp, suffix |-> s] \in DOMAIN dir'
    OBVIOUS
  <2> DEFINE n == [stamp |-> wr[v].stamp, suffix |-> s]
  <2>1. n \in DOMAIN dir
    BY <1>1 DEF OwnInv, Bound
  <2>2. n \in FinalNames
    BY <2>1, SuffixedIsFinal DEF WriterInv, TypeOK
  <2>3. QED
    BY <2>1, <2>2 DEF OwnStep, DirStep
<1>7. Named(v)' = Named(v) /\ FinalName(v)' = FinalName(v)
  BY <1>1 DEF Named, FinalName
<1>8. QED
  BY <1>1, <1>2, <1>4, <1>5, <1>6, <1>7 DEF OwnInv, Bound

\* With that, a step keeps the invariant if it does so for its own writer.
LEMMA StepKeeps ==
    ASSUME WriterInv, NEW w \in Writers, OwnStep(w), Fits(w),
           CallInv(w)', BytesInv(w)', OwnInv(w)'
    PROVE  WriterInv'
<1>1. TypeOK'
  BY DEF WriterInv, TypeOK, OwnStep, DirStep, IsDirectory
<1>2. \A v \in Writers : wr'[v].pc = "new" => wr[v].pc = "new"
  BY DEF OwnStep
<1>3. \A v \in Writers : safe[v] = Size[v] => safe'[v] = Size[v]
  BY DEF OwnStep, Fits
<1>4. ASSUME NEW v \in Writers
      PROVE  CallInv(v)' /\ BytesInv(v)' /\ (Alive(v)' => OwnInv(v)')
  <2>1. CASE v = w
    BY <2>1
  <2>2. CASE v # w
    <3>1. wr'[v] = wr[v] /\ size'[v] = size[v] /\ safe'[v] = safe[v]
          /\ CallInv(v) /\ BytesInv(v)
      BY <2>2 DEF OwnStep, WriterInv
    <3>2. BytesInv(v)'
      BY <3>1 DEF BytesInv
    <3>3. ProcOf[v] \in Procs /\ nextSeq[ProcOf[v]] \in Nat
          /\ nextSeq'[ProcOf[v]] \in Nat /\ nextSeq'[ProcOf[v]] >= nextSeq[ProcOf[v]]
      BY WriterAssumption DEF OwnStep, WriterInv, TypeOK
    <3>4. CallInv(v)'
      BY <3>1, <3>3 DEF CallInv
    <3>5. QED
      BY <2>2, <3>2, <3>4, OthersKeep
  <2>3. QED
    BY <2>1, <2>2
<1>5. NamesInv(disk)'
  BY <1>2, <1>3 DEF WriterInv, TypeOK, IsDirectory, NamesInv, OwnStep
<1>6. NamesInv(dir)'
  <2> SUFFICES ASSUME NEW n \in DOMAIN dir'
               PROVE  wr'[dir'[n]].pc # "new" /\ (n \in FinalNames => safe'[dir'[n]] = Size[dir'[n]])
    BY DEF NamesInv
  <2>1. CASE dir'[n] = w
    BY <2>1 DEF OwnStep, Fits
  <2>2. CASE n \in DOMAIN dir /\ dir'[n] = dir[n]
    BY <2>2, <1>2, <1>3 DEF WriterInv, TypeOK, IsDirectory, NamesInv
  <2>3. QED
    BY <2>1, <2>2 DEF OwnStep, DirStep
<1>7. DiskInv'
  BY DEF WriterInv, DiskInv, OwnStep, DirStep
<1>8. NoLitter'
  <2> SUFFICES ASSUME NEW n \in DOMAIN dir' \cap TempNames,
                      alive'[ProcOf[dir'[n]]], dir'[n] \notin stuck'
               PROVE  wr'[dir'[n]].temp = n
    BY DEF NoLitter, Alive
  <2>1. CASE dir'[n] = w
    BY <2>1 DEF Fits
  <2>2. CASE dir'[n] # w
    <3>1. n \in DOMAIN dir /\ dir'[n] = dir[n] /\ dir[n] \in Writers
      BY <2>2 DEF OwnStep, DirStep, IsDirectory
    <3>2. Alive(dir[n]) /\ dir[n] \notin stuck /\ wr'[dir[n]] = wr[dir[n]]
      BY <2>2, <3>1 DEF OwnStep, Alive
    <3>3. QED
      BY <3>1, <3>2 DEF WriterInv, NoLitter
  <2>3. QED
    BY <2>1, <2>2
<1>9. QED
  BY <1>1, <1>4, <1>5, <1>6, <1>7, <1>8 DEF WriterInv

-----------------------------------------------------------------------------
(* The steps of a writer.                                                  *)

LEMMA SameDirStep ==
    ASSUME WriterInv, NEW w \in Writers, UNCHANGED dir
    PROVE  DirStep(w)
BY DEF WriterInv, TypeOK, IsDirectory, DirStep

LEMMA BindStep ==
    ASSUME WriterInv, NEW w \in Writers,
           NEW name \in TempNames \cup FinalNames, Creates(name), Bind(name, w)
    PROVE  DirStep(w)
<1>1. IsDirectory(dir) /\ name \notin DOMAIN dir
  BY DEF WriterInv, TypeOK, Creates, Bound
<1>2. /\ IsDirectory(dir') /\ DOMAIN dir' = DOMAIN dir \cup {name} /\ dir'[name] = w
      /\ \A n \in DOMAIN dir \ {name} : dir'[n] = dir[n]
  BY <1>1, BindValue
<1>3. QED
  BY <1>1, <1>2 DEF DirStep

\* After unlink the writer has no temporary name any more, or is stuck with it,
\* and all final names are as they were.
LEMMA RemoveStep ==
    ASSUME WriterInv, NEW w \in Writers, Alive(w), wr[w].temp # NoPath, Remove(w)
    PROVE  /\ DirStep(w)
           /\ stuck \subseteq stuck' /\ stuck' \subseteq Writers
           /\ DOMAIN dir' \cap FinalNames = DOMAIN dir \cap FinalNames
           /\ \A n \in DOMAIN dir' : n \in DOMAIN dir /\ dir'[n] = dir[n]
           /\ \A n \in DOMAIN dir' \cap TempNames : dir'[n] = w => w \in stuck'
<1> DEFINE temp == wr[w].temp
<1>1. /\ temp \in TempNames /\ temp \notin FinalNames
      /\ temp \in DOMAIN dir /\ dir[temp] = w
      /\ IsDirectory(dir) /\ stuck \subseteq Writers
  BY NamesApart DEF WriterInv, TypeOK, WriterType, OwnInv, Bound
<1>2. \A n \in DOMAIN dir \cap TempNames : dir[n] = w => w \in stuck \/ n = temp
  BY DEF WriterInv, NoLitter
<1>3. CASE Unbind(temp) /\ UNCHANGED stuck
  <2>1. /\ IsDirectory(dir') /\ DOMAIN dir' = DOMAIN dir \ {temp}
        /\ \A n \in DOMAIN dir \ {temp} : dir'[n] = dir[n]
    BY <1>1, <1>3, UnbindValue
  <2>2. DirStep(w)
    BY <1>1, <2>1 DEF DirStep
  <2>3. QED
    BY <1>1, <1>2, <1>3, <2>1, <2>2
<1>4. CASE stuck' = stuck \cup {w} /\ UNCHANGED dir
  <2>1. DirStep(w)
    BY <1>4, SameDirStep
  <2>2. QED
    BY <1>1, <1>4, <2>1
<1>5. QED
  BY <1>3, <1>4 DEF Remove

\* What is known of a writer when its run is there.
LEMMA AtWork ==
    ASSUME WriterInv, NEW w \in Writers, Turn(w)
    PROVE  /\ Alive(w) /\ TypeOK /\ CallInv(w) /\ BytesInv(w) /\ OwnInv(w)
           /\ wr \in [Writers -> WriterType] /\ wr[w] \in WriterType
           /\ ProcOf[w] \in Procs /\ MaxSuffix \in Nat
           /\ size[w] \in Nat /\ safe[w] \in Nat /\ Size[w] \in Nat
           /\ \A n \in DOMAIN dir : dir[n] = w =>
                /\ n \in FinalNames => safe[w] = Size[w]
                /\ n \in TempNames => w \in stuck \/ wr[w].temp = n
<1>1. Alive(w) /\ TypeOK /\ CallInv(w) /\ BytesInv(w) /\ OwnInv(w)
  BY DEF WriterInv, Turn, Alive
<1>2. \A n \in DOMAIN dir : dir[n] = w =>
         /\ n \in FinalNames => safe[w] = Size[w]
         /\ n \in TempNames => w \in stuck \/ wr[w].temp = n
  BY <1>1 DEF WriterInv, NamesInv, NoLitter
<1>3. QED
  BY <1>1, <1>2, WriterAssumption DEF TypeOK

LEMMA OpenKeeps ==
    ASSUME WriterInv, NEW w \in Writers, Open(w)
    PROVE  WriterInv'
<1> DEFINE p == ProcOf[w]
           name == [pid |-> PidOf[p], seq |-> nextSeq[p]]
<1>1. Turn(w) /\ wr[w].pc = "new"
  BY DEF Open
<1>2. /\ Alive(w) /\ TypeOK /\ CallInv(w) /\ BytesInv(w) /\ OwnInv(w)
      /\ wr \in [Writers -> WriterType] /\ wr[w] \in WriterType /\ p \in Procs
      /\ MaxSuffix \in Nat
  BY <1>1, AtWork
<1>3. name \in TempNames /\ name # NoPath /\ name \notin FinalNames
  BY <1>2, WriterAssumption, NamesApart DEF TypeOK, TempNames
<1>4. \A n \in DOMAIN dir : dir[n] # w
  BY <1>1 DEF WriterInv, NamesInv
<1>5. /\ nextSeq' \in [Procs -> Nat] /\ \A q \in Procs : nextSeq'[q] >= nextSeq[q]
      /\ nextSeq'[p] > 0
  BY <1>2 DEF Open, TypeOK
<1>6. UNCHANGED <<disk, size, safe, alive, stuck, losses>>
  BY DEF Open
<1>7. BytesInv(w)' <=> (wr'[w].pc \in {"link", "unlink"} => safe[w] = Size[w])
  BY <1>2, <1>6 DEF BytesInv
<1>8. CASE /\ Creates(name) /\ Bind(name, w)
           /\ wr' = [wr EXCEPT ![w].pc = "open", ![w].temp = name]
  <2>1. /\ wr'[w] = [wr[w] EXCEPT !.pc = "open", !.temp = name]
        /\ \A v \in Writers \ {w} : wr'[v] = wr[v]
        /\ wr' \in [Writers -> WriterType]
    BY <1>2, <1>3, <1>8 DEF WriterType
  <2>2. /\ wr'[w].pc = "open" /\ wr'[w].temp = name /\ wr'[w].suffix = wr[w].suffix
        /\ wr'[w].result = wr[w].result /\ wr'[w].stamp = wr[w].stamp
    BY <1>2, <2>1 DEF WriterType
  <2>3. DOMAIN dir' = DOMAIN dir \cup {name} /\ dir'[name] = w
        /\ \A n \in DOMAIN dir \ {name} : dir'[n] = dir[n]
    BY <1>2, <1>3, <1>8, BindValue DEF TypeOK
  <2>4. DirStep(w)
    BY <1>3, <1>8, BindStep
  <2>5. OwnStep(w)
    BY <1>2, <1>5, <1>6, <2>1, <2>2, <2>4 DEF OwnStep, TypeOK
  <2>6. Fits(w)
    BY <1>3, <1>4, <1>6, <2>2, <2>3 DEF Fits
  <2>7. CallInv(w)'
    BY <1>1, <1>2, <1>3, <1>5, <2>2 DEF CallInv
  <2>8. OwnInv(w)'
    <3>1. ~Named(w)' /\ wr'[w].suffix = 0
      BY <1>1, <1>2, <2>2 DEF Named, CallInv
    <3>2. QED
      BY <1>3, <1>4, <2>2, <2>3, <3>1 DEF OwnInv, Bound
  <2>9. QED
    BY <1>7, <2>2, <2>5, <2>6, <2>7, <2>8, StepKeeps
<1>9. CASE Done(w, "error") /\ UNCHANGED dir
  <2>1. /\ wr'[w] = [wr[w] EXCEPT !.pc = "done", !.temp = NoPath, !.result = "error"]
        /\ \A v \in Writers \ {w} : wr'[v] = wr[v]
        /\ wr' \in [Writers -> WriterType]
    BY <1>2, <1>9 DEF WriterType, Done
  <2>2. /\ wr'[w].pc = "done" /\ wr'[w].temp = NoPath /\ wr'[w].suffix = wr[w].suffix
        /\ wr'[w].result = "error" /\ wr'[w].stamp = wr[w].stamp
    BY <1>2, <2>1 DEF WriterType
  <2>3. DirStep(w)
    BY <1>9, SameDirStep
  <2>4. OwnStep(w)
    BY <1>2, <1>5, <1>6, <2>1, <2>2, <2>3 DEF OwnStep, TypeOK
  <2>5. Fits(w)
    BY <1>4, <1>6, <1>9 DEF Fits
  <2>6. CallInv(w)'
    BY <1>1, <1>2, <1>5, <2>2 DEF CallInv
  <2>7. OwnInv(w)'
    <3>1. ~Named(w)' /\ wr'[w].suffix = 0
      BY <1>1, <1>2, <2>2 DEF Named, CallInv
    <3>2. QED
      BY <1>4, <1>9, <2>2, <3>1 DEF OwnInv, Bound
  <2>8. QED
    BY <1>7, <2>2, <2>4, <2>5, <2>6, <2>7, StepKeeps
<1>10. QED
  BY <1>8, <1>9 DEF Open

\* Writing, syncing and failing leave the directory alone.
PlainStep(w) ==
    /\ wr[w].temp # NoPath /\ wr'[w].temp = wr[w].temp
    /\ wr[w].pc # "unlink" /\ wr[w].result # "stored"
    /\ wr'[w].pc \notin {"new", "unlink"} /\ wr'[w].result # "stored"
    /\ \A s \in 0..(MaxSuffix - 1) : s < wr'[w].suffix =>
         [stamp |-> wr'[w].stamp, suffix |-> s] \in DOMAIN dir
    /\ wr' \in [Writers -> WriterType]
    /\ \A v \in Writers \ {w} :
         wr'[v] = wr[v] /\ size'[v] = size[v] /\ safe'[v] = safe[v]
    /\ size' \in [Writers -> Nat] /\ safe' \in [Writers -> Nat]
    /\ safe[w] = Size[w] => safe'[w] = Size[w]
    /\ UNCHANGED <<dir, disk, alive, nextSeq, stuck, losses>>

LEMMA PlainKeeps ==
    ASSUME WriterInv, NEW w \in Writers, Turn(w), PlainStep(w),
           CallInv(w)', BytesInv(w)'
    PROVE  WriterInv'
<1>1. /\ Alive(w) /\ TypeOK /\ OwnInv(w)
      /\ \A n \in DOMAIN dir : dir[n] = w =>
           /\ n \in FinalNames => safe[w] = Size[w]
           /\ n \in TempNames => w \in stuck \/ wr[w].temp = n
  BY AtWork
<1>2. DirStep(w)
  BY SameDirStep DEF PlainStep
<1>3. nextSeq' \in [Procs -> Nat] /\ \A q \in Procs : nextSeq'[q] >= nextSeq[q]
  BY <1>1 DEF TypeOK, PlainStep
<1>4. OwnStep(w)
  BY <1>1, <1>2, <1>3 DEF OwnStep, PlainStep, TypeOK
<1>5. Fits(w)
  BY <1>1 DEF Fits, PlainStep
<1>6. OwnInv(w)'
  BY <1>1 DEF OwnInv, Bound, PlainStep, Named, FinalName
<1>7. QED
  BY <1>4, <1>5, <1>6, StepKeeps

LEMMA WriteKeeps ==
    ASSUME WriterInv, NEW w \in Writers, Write(w)
    PROVE  WriterInv'
<1>1. Turn(w) /\ wr[w].pc = "open" /\ size[w] < Size[w]
  BY DEF Write
<1>2. /\ Alive(w) /\ TypeOK /\ CallInv(w) /\ BytesInv(w) /\ OwnInv(w)
      /\ wr \in [Writers -> WriterType] /\ wr[w] \in WriterType
      /\ size[w] \in Nat /\ safe[w] \in Nat /\ Size[w] \in Nat
  BY <1>1, AtWork
<1>3. /\ wr[w].temp # NoPath /\ wr[w].suffix = 0 /\ wr[w].result = "none"
      /\ ~Named(w)
  BY <1>1, <1>2 DEF CallInv, Named
<1>4. UNCHANGED <<dir, disk, safe, alive, nextSeq, stuck, losses>>
  BY DEF Write
<1>8. \A s \in 0..(MaxSuffix - 1) : ~(s < 0)
  BY WriterAssumption
<1>5. CASE size' = [size EXCEPT ![w] = @ + 1] /\ UNCHANGED wr
  <2>1. /\ size' \in [Writers -> Nat] /\ size'[w] = size[w] + 1
        /\ \A v \in Writers \ {w} : size'[v] = size[v]
    BY <1>2, <1>5 DEF TypeOK
  <2>2. CallInv(w)' /\ ~Named(w)'
    BY <1>2, <1>3, <1>4, <1>5 DEF CallInv, Named
  <2>3. BytesInv(w)'
    BY <1>1, <1>2, <1>4, <1>5, <2>1 DEF BytesInv
  <2>4. PlainStep(w)
    BY <1>1, <1>2, <1>3, <1>4, <1>5, <1>8, <2>1 DEF PlainStep, TypeOK
  <2>5. QED
    BY <1>1, <2>2, <2>3, <2>4, PlainKeeps
<1>6. CASE Goto(w, "abort") /\ UNCHANGED size
  <2>1. /\ wr' \in [Writers -> WriterType] /\ wr'[w] = [wr[w] EXCEPT !.pc = "abort"]
        /\ \A v \in Writers \ {w} : wr'[v] = wr[v]
    BY <1>2, <1>6 DEF Goto, WriterType
  <2>2. /\ wr'[w].pc = "abort" /\ wr'[w].temp = wr[w].temp /\ wr'[w].suffix = 0
        /\ wr'[w].result = "none"
    BY <1>2, <1>3, <2>1 DEF WriterType
  <2>3. CallInv(w)' /\ ~Named(w)'
    BY <1>1, <1>2, <1>3, <1>4, <2>2 DEF CallInv, Named
  <2>4. BytesInv(w)'
    BY <1>2, <1>4, <1>6, <2>2 DEF BytesInv
  <2>5. PlainStep(w)
    BY <1>1, <1>2, <1>3, <1>4, <1>6, <1>8, <2>1, <2>2 DEF PlainStep, TypeOK
  <2>6. QED
    BY <1>1, <2>3, <2>4, <2>5, PlainKeeps
<1>7. QED
  BY <1>5, <1>6 DEF Write

LEMMA SyncKeeps ==
    ASSUME WriterInv, NEW w \in Writers, Sync(w)
    PROVE  WriterInv'
<1>1. Turn(w) /\ wr[w].pc = "open" /\ size[w] = Size[w]
  BY DEF Sync
<1>2. /\ Alive(w) /\ TypeOK /\ CallInv(w) /\ BytesInv(w) /\ OwnInv(w)
      /\ wr \in [Writers -> WriterType] /\ wr[w] \in WriterType
      /\ size[w] \in Nat /\ safe[w] \in Nat /\ Size[w] \in Nat
  BY <1>1, AtWork
<1>3. /\ wr[w].temp # NoPath /\ wr[w].suffix = 0 /\ wr[w].result = "none"
      /\ ~Named(w)
  BY <1>1, <1>2 DEF CallInv, Named
<1>4. UNCHANGED <<dir, disk, size, alive, nextSeq, stuck, losses>>
  BY DEF Sync
<1>8. \A s \in 0..(MaxSuffix - 1) : ~(s < 0)
  BY WriterAssumption
<1>5. ASSUME fsync(w), NEW now \in Stamps,
             wr' = [wr EXCEPT ![w].pc = "link", ![w].stamp = now]
      PROVE  WriterInv'
  <2>1. /\ wr' \in [Writers -> WriterType]
        /\ wr'[w] = [wr[w] EXCEPT !.pc = "link", !.stamp = now]
        /\ \A v \in Writers \ {w} : wr'[v] = wr[v]
    BY <1>2, <1>5 DEF WriterType
  <2>2. /\ wr'[w].pc = "link" /\ wr'[w].temp = wr[w].temp /\ wr'[w].suffix = 0
        /\ wr'[w].result = "none" /\ wr'[w].stamp = now
    BY <1>2, <1>3, <2>1 DEF WriterType
  <2>3. CallInv(w)' /\ ~Named(w)'
    BY <1>1, <1>2, <1>3, <1>4, <1>5, <2>2, WriterAssumption DEF CallInv, Named
  <2>4. /\ safe' \in [Writers -> Nat] /\ safe'[w] = Size[w]
        /\ \A v \in Writers \ {w} : safe'[v] = safe[v]
    BY <1>1, <1>2, <1>5 DEF fsync, TypeOK
  <2>5. BytesInv(w)'
    BY <1>1, <1>2, <1>4, <2>4 DEF BytesInv
  <2>6. PlainStep(w)
    BY <1>1, <1>2, <1>3, <1>4, <1>8, <2>1, <2>2, <2>4 DEF PlainStep, TypeOK
  <2>7. QED
    BY <1>1, <2>3, <2>5, <2>6, PlainKeeps
<1>6. CASE Goto(w, "abort") /\ UNCHANGED safe
  <2>1. /\ wr' \in [Writers -> WriterType] /\ wr'[w] = [wr[w] EXCEPT !.pc = "abort"]
        /\ \A v \in Writers \ {w} : wr'[v] = wr[v]
    BY <1>2, <1>6 DEF Goto, WriterType
  <2>2. /\ wr'[w].pc = "abort" /\ wr'[w].temp = wr[w].temp /\ wr'[w].suffix = 0
        /\ wr'[w].result = "none"
    BY <1>2, <1>3, <2>1 DEF WriterType
  <2>3. CallInv(w)' /\ ~Named(w)'
    BY <1>1, <1>2, <1>3, <1>4, <2>2 DEF CallInv, Named
  <2>4. BytesInv(w)'
    BY <1>2, <1>4, <1>6, <2>2 DEF BytesInv
  <2>5. PlainStep(w)
    BY <1>1, <1>2, <1>3, <1>4, <1>6, <1>8, <2>1, <2>2 DEF PlainStep, TypeOK
  <2>6. QED
    BY <1>1, <2>3, <2>4, <2>5, PlainKeeps
<1>7. QED
  BY <1>5, <1>6 DEF Sync

LEMMA LinkKeeps ==
    ASSUME WriterInv, NEW w \in Writers, Link(w)
    PROVE  WriterInv'
<1> DEFINE name == FinalName(w)
           next == wr[w].suffix + 1
<1>1. Turn(w) /\ wr[w].pc = "link"
  BY DEF Link
<1>2. /\ Alive(w) /\ TypeOK /\ CallInv(w) /\ BytesInv(w) /\ OwnInv(w)
      /\ wr \in [Writers -> WriterType] /\ wr[w] \in WriterType
      /\ size[w] \in Nat /\ safe[w] \in Nat /\ Size[w] \in Nat
      /\ ProcOf[w] \in Procs /\ MaxSuffix \in Nat
      /\ \A n \in DOMAIN dir : dir[n] = w =>
           /\ n \in FinalNames => safe[w] = Size[w]
           /\ n \in TempNames => w \in stuck \/ wr[w].temp = n
  BY <1>1, AtWork
<1>3. /\ wr[w].temp # NoPath /\ wr[w].result = "none" /\ ~Named(w)
      /\ wr[w].stamp \in Stamps /\ wr[w].suffix \in Nat /\ wr[w].suffix < MaxSuffix
      /\ safe[w] = Size[w]
  BY <1>1, <1>2 DEF CallInv, BytesInv, Named, WriterType
<1>4. /\ name \in FinalNames /\ name.stamp = wr[w].stamp /\ name.suffix = wr[w].suffix
      /\ wr[w].temp \in TempNames /\ wr[w].temp # name
  <2>1. name \in FinalNames
    BY <1>2, <1>3 DEF FinalName, FinalNames
  <2>2. wr[w].temp \in TempNames
    BY <1>2, <1>3 DEF WriterType
  <2>3. QED
    BY <2>1, <2>2, NamesApart DEF FinalName
<1>5. UNCHANGED <<disk, size, safe, alive, nextSeq, stuck, losses>>
  BY DEF Link
<1>6. \A n \in DOMAIN dir \cap FinalNames : dir[n] # w
  BY <1>2, <1>3 DEF OwnInv
<1>7. CASE Creates(name) /\ Bind(name, dir[wr[w].temp]) /\ Goto(w, "unlink")
  <2>1. /\ wr' \in [Writers -> WriterType] /\ wr'[w] = [wr[w] EXCEPT !.pc = "unlink"]
        /\ \A v \in Writers \ {w} : wr'[v] = wr[v]
    BY <1>2, <1>7 DEF Goto, WriterType
  <2>2. /\ wr'[w].pc = "unlink" /\ wr'[w].temp = wr[w].temp
        /\ wr'[w].suffix = wr[w].suffix /\ wr'[w].stamp = wr[w].stamp
        /\ wr'[w].result = "none"
    BY <1>2, <1>3, <2>1 DEF WriterType
  <2>3. dir[wr[w].temp] = w /\ wr[w].temp \in DOMAIN dir /\ Bind(name, w)
    BY <1>2, <1>3, <1>7 DEF OwnInv, Bound
  <2>4. DOMAIN dir' = DOMAIN dir \cup {name} /\ dir'[name] = w
        /\ \A n \in DOMAIN dir \ {name} : dir'[n] = dir[n]
    BY <1>2, <1>4, <2>3, BindValue DEF TypeOK
  <2>5. DirStep(w)
    BY <1>4, <1>7, <2>3, BindStep
  <2>6. OwnStep(w)
    BY <1>2, <1>5, <2>1, <2>2, <2>5 DEF OwnStep, TypeOK
  <2>7. Fits(w)
    <3>1. \A n \in TempNames : n # name
      BY <1>4, NamesApart
    <3>2. QED
      BY <1>2, <1>3, <1>5, <2>2, <2>4, <3>1 DEF Fits
  <2>8. CallInv(w)'
    BY <1>1, <1>2, <1>3, <1>5, <2>2 DEF CallInv
  <2>9. BytesInv(w)'
    BY <1>2, <1>3, <1>5 DEF BytesInv
  <2>10. OwnInv(w)'
    <3>1. FinalName(w)' = name /\ Named(w)'
      BY <2>2 DEF FinalName, Named
    <3>2. wr[w].temp \in DOMAIN dir' /\ dir'[wr[w].temp] = w
      BY <1>4, <2>3, <2>4
    <3>3. \A s \in 0..(MaxSuffix - 1) : s < wr'[w].suffix =>
             [stamp |-> wr'[w].stamp, suffix |-> s] \in DOMAIN dir'
      BY <1>2, <2>2, <2>4 DEF OwnInv, Bound
    <3>4. \A n \in DOMAIN dir' \cap FinalNames : dir'[n] = w => n = name
      BY <1>6, <2>4
    <3>5. QED
      BY <2>2, <2>4, <3>1, <3>2, <3>3, <3>4 DEF OwnInv, Bound
  <2>11. QED
    BY <2>6, <2>7, <2>8, <2>9, <2>10, StepKeeps
<1>8. CASE /\ Bound(name)
           /\ wr' = IF More(next) THEN [wr EXCEPT ![w].suffix = next]
                    ELSE [wr EXCEPT ![w].suffix = MaxSuffix, ![w].pc = "abort"]
           /\ UNCHANGED dir
  <2>1. /\ wr' \in [Writers -> WriterType]
        /\ \A v \in Writers \ {w} : wr'[v] = wr[v]
        /\ wr'[w].suffix = next /\ wr'[w].temp = wr[w].temp
        /\ wr'[w].stamp = wr[w].stamp /\ wr'[w].result = "none"
        /\ wr'[w].pc \in {"link", "abort"}
        /\ wr'[w].pc = "link" => next < MaxSuffix
    <3>1. CASE next < MaxSuffix
      <4>1. wr' = [wr EXCEPT ![w].suffix = next] /\ next \in 0..MaxSuffix
        BY <1>2, <1>3, <1>8, <3>1 DEF More
      <4>2. QED
        BY <1>1, <1>2, <1>3, <3>1, <4>1 DEF WriterType
    <3>2. CASE ~(next < MaxSuffix)
      <4>1. next = MaxSuffix /\ next \in 0..MaxSuffix
        BY <1>2, <1>3, <3>2
      <4>2. wr' = [wr EXCEPT ![w].suffix = next, ![w].pc = "abort"]
        BY <1>8, <3>2, <4>1 DEF More
      <4>3. QED
        BY <1>1, <1>2, <1>3, <4>1, <4>2 DEF WriterType
    <3>3. QED
      BY <3>1, <3>2
  <2>2. CallInv(w)'
    BY <1>1, <1>2, <1>3, <1>5, <2>1 DEF CallInv
  <2>3. BytesInv(w)'
    BY <1>2, <1>3, <1>5 DEF BytesInv
  <2>4. \A s \in 0..(MaxSuffix - 1) : s < next =>
           [stamp |-> wr[w].stamp, suffix |-> s] \in DOMAIN dir
    <3> SUFFICES ASSUME NEW s \in 0..(MaxSuffix - 1), s < next
                 PROVE  [stamp |-> wr[w].stamp, suffix |-> s] \in DOMAIN dir
      OBVIOUS
    <3>1. CASE s < wr[w].suffix
      BY <1>2, <3>1 DEF OwnInv, Bound
    <3>2. CASE ~(s < wr[w].suffix)
      <4>1. s = wr[w].suffix
        BY <1>2, <1>3, <3>2
      <4>2. QED
        BY <1>8, <4>1 DEF Bound, FinalName
    <3>3. QED
      BY <3>1, <3>2
  <2>5. PlainStep(w)
    BY <1>1, <1>2, <1>3, <1>5, <1>8, <2>1, <2>4 DEF PlainStep, TypeOK
  <2>6. QED
    BY <1>1, <2>2, <2>3, <2>5, PlainKeeps
<1>9. CASE LinkError(w) /\ UNCHANGED dir
  <2>1. /\ wr' \in [Writers -> WriterType] /\ wr'[w] = [wr[w] EXCEPT !.pc = "abort"]
        /\ \A v \in Writers \ {w} : wr'[v] = wr[v]
    BY <1>2, <1>9 DEF LinkError, Goto, WriterType
  <2>2. /\ wr'[w].pc = "abort" /\ wr'[w].temp = wr[w].temp
        /\ wr'[w].suffix = wr[w].suffix /\ wr'[w].stamp = wr[w].stamp
        /\ wr'[w].result = "none"
    BY <1>2, <1>3, <2>1 DEF WriterType
  <2>3. CallInv(w)'
    BY <1>1, <1>2, <1>3, <1>5, <2>2 DEF CallInv
  <2>4. BytesInv(w)'
    BY <1>2, <1>3, <1>5 DEF BytesInv
  <2>5. \A s \in 0..(MaxSuffix - 1) : s < wr'[w].suffix =>
           [stamp |-> wr'[w].stamp, suffix |-> s] \in DOMAIN dir
    BY <1>2, <2>2 DEF OwnInv, Bound
  <2>6. PlainStep(w)
    BY <1>1, <1>2, <1>3, <1>5, <1>9, <2>1, <2>2, <2>5 DEF PlainStep, TypeOK
  <2>7. QED
    BY <1>1, <2>3, <2>4, <2>6, PlainKeeps
<1>10. QED
  BY <1>7, <1>8, <1>9 DEF Link, FinalName

\* commit's unlink and abort's: the temporary name goes, and with it the call.
LEMMA RemoveKeeps ==
    ASSUME WriterInv, NEW w \in Writers, NEW result \in {"stored", "error"},
           Turn(w), Remove(w), Done(w, result),
           wr[w].pc \in {"open", "unlink", "abort"},
           (wr[w].pc = "unlink") = (result = "stored"),
           UNCHANGED <<disk, size, safe, alive, nextSeq, losses>>
    PROVE  WriterInv'
<1>1. /\ Alive(w) /\ TypeOK /\ CallInv(w) /\ BytesInv(w) /\ OwnInv(w)
      /\ wr \in [Writers -> WriterType] /\ wr[w] \in WriterType
      /\ ProcOf[w] \in Procs
      /\ \A n \in DOMAIN dir : dir[n] = w =>
           /\ n \in FinalNames => safe[w] = Size[w]
           /\ n \in TempNames => w \in stuck \/ wr[w].temp = n
  BY AtWork
<1>2. wr[w].temp # NoPath /\ wr[w].result = "none" /\ (Named(w) <=> result = "stored")
  BY <1>1 DEF CallInv, Named
<1>3. /\ wr' \in [Writers -> WriterType]
      /\ \A v \in Writers \ {w} : wr'[v] = wr[v]
      /\ wr'[w].pc = "done" /\ wr'[w].temp = NoPath /\ wr'[w].result = result
      /\ wr'[w].suffix = wr[w].suffix /\ wr'[w].stamp = wr[w].stamp
  BY <1>1 DEF Done, WriterType
<1>4. /\ DirStep(w)
      /\ stuck \subseteq stuck' /\ stuck' \subseteq Writers
      /\ DOMAIN dir' \cap FinalNames = DOMAIN dir \cap FinalNames
      /\ \A n \in DOMAIN dir' : n \in DOMAIN dir /\ dir'[n] = dir[n]
      /\ \A n \in DOMAIN dir' \cap TempNames : dir'[n] = w => w \in stuck'
  BY <1>1, <1>2, RemoveStep
<1>5. OwnStep(w)
  BY <1>1, <1>3, <1>4 DEF OwnStep, TypeOK
<1>6. Fits(w)
  BY <1>1, <1>4 DEF Fits
<1>7. CallInv(w)'
  BY <1>1, <1>2, <1>3 DEF CallInv
<1>8. BytesInv(w)'
  BY <1>1, <1>3 DEF BytesInv
<1>9. OwnInv(w)'
  <2>1. FinalName(w)' = FinalName(w) /\ (Named(w)' <=> Named(w))
    BY <1>2, <1>3 DEF FinalName, Named
  <2>2. Named(w) => FinalName(w) \in FinalNames
    <3>1. wr[w].pc = "unlink" => wr[w].stamp \in Stamps /\ wr[w].suffix < MaxSuffix
      BY <1>1 DEF CallInv
    <3>2. wr[w].suffix \in Nat /\ MaxSuffix \in Nat
      BY <1>1, WriterAssumption DEF WriterType
    <3>3. QED
      BY <1>2, <3>1, <3>2 DEF Named, FinalName, FinalNames
  <2>3. Named(w) => FinalName(w) \in DOMAIN dir' /\ dir'[FinalName(w)] = w
    BY <1>1, <1>4, <2>2 DEF OwnInv, Bound
  <2>4. \A n \in DOMAIN dir' \cap FinalNames : dir'[n] = w => Named(w) /\ n = FinalName(w)
    BY <1>1, <1>4 DEF OwnInv
  <2>5. \A s \in 0..(MaxSuffix - 1) : s < wr[w].suffix =>
           [stamp |-> wr[w].stamp, suffix |-> s] \in DOMAIN dir'
    <3> SUFFICES ASSUME NEW s \in 0..(MaxSuffix - 1), s < wr[w].suffix
                 PROVE  [stamp |-> wr[w].stamp, suffix |-> s] \in DOMAIN dir'
      OBVIOUS
    <3>1. [stamp |-> wr[w].stamp, suffix |-> s] \in DOMAIN dir
      BY <1>1 DEF OwnInv, Bound
    <3>2. [stamp |-> wr[w].stamp, suffix |-> s] \in FinalNames
      BY <1>1, <3>1, SuffixedIsFinal DEF TypeOK
    <3>3. QED
      BY <1>4, <3>1, <3>2
  <2>6. QED
    BY <1>3, <2>1, <2>3, <2>4, <2>5 DEF OwnInv, Bound
<1>10. QED
  BY <1>5, <1>6, <1>7, <1>8, <1>9, StepKeeps

LEMMA WriterKeeps ==
    ASSUME WriterInv, NEW w \in Writers, WriterStep(w)
    PROVE  WriterInv'
<1>1. ASSUME Unlink(w) PROVE WriterInv'
  BY <1>1, RemoveKeeps DEF Unlink
<1>2. ASSUME Abort(w) PROVE WriterInv'
  BY <1>2, RemoveKeeps DEF Abort
<1>3. QED
  BY <1>1, <1>2, OpenKeeps, WriteKeeps, SyncKeeps, LinkKeeps DEF WriterStep

-----------------------------------------------------------------------------
(* The system underneath.                                                  *)

LEMMA CrashKeeps ==
    ASSUME WriterInv, NEW p \in Procs, Crash(p)
    PROVE  WriterInv'
<1>1. /\ UNCHANGED <<dir, disk, size, safe, nextSeq, wr, stuck, losses>>
      /\ alive' \in [Procs -> BOOLEAN]
      /\ \A w \in Writers : Alive(w)' => Alive(w)
  BY WriterAssumption DEF Crash, WriterInv, TypeOK, Alive
<1>2. TypeOK'
  BY <1>1 DEF WriterInv, TypeOK
<1>3. ASSUME NEW w \in Writers
      PROVE  CallInv(w)' /\ BytesInv(w)' /\ (Alive(w)' => OwnInv(w)')
  <2>1. CallInv(w) /\ BytesInv(w) /\ (Alive(w)' => OwnInv(w))
    BY <1>1 DEF WriterInv
  <2>2. CallInv(w)' /\ BytesInv(w)'
    BY <1>1, <2>1 DEF CallInv, BytesInv
  <2>3. Alive(w)' => OwnInv(w)'
    BY <1>1, <2>1 DEF OwnInv, Named, FinalName, Bound
  <2>4. QED
    BY <2>2, <2>3
<1>4. NamesInv(dir)' /\ NamesInv(disk)' /\ DiskInv'
  BY <1>1 DEF WriterInv, NamesInv, DiskInv
<1>5. NoLitter'
  BY <1>1 DEF WriterInv, NoLitter, TypeOK, IsDirectory
<1>6. QED
  BY <1>2, <1>3, <1>4, <1>5 DEF WriterInv

\* Flushing, and steps that change nothing, leave all but the disk.
LEMMA FlushKeeps ==
    ASSUME WriterInv, disk' \in {disk, dir},
           UNCHANGED <<dir, size, safe, alive, nextSeq, wr, stuck, losses>>
    PROVE  WriterInv'
<1>1. TypeOK'
  BY DEF WriterInv, TypeOK
<1>2. ASSUME NEW w \in Writers
      PROVE  CallInv(w)' /\ BytesInv(w)' /\ (Alive(w)' => OwnInv(w)')
  <2>1. CallInv(w) /\ BytesInv(w) /\ (Alive(w)' => OwnInv(w))
    BY DEF WriterInv, Alive
  <2>2. CallInv(w)' /\ BytesInv(w)'
    BY <2>1 DEF CallInv, BytesInv
  <2>3. Alive(w)' => OwnInv(w)'
    BY <2>1 DEF OwnInv, Named, FinalName, Bound
  <2>4. QED
    BY <2>2, <2>3
<1>3. NamesInv(dir)' /\ NamesInv(disk)' /\ DiskInv'
  BY DEF WriterInv, NamesInv, DiskInv
<1>4. NoLitter'
  BY DEF WriterInv, NoLitter, Alive
<1>5. QED
  BY <1>1, <1>2, <1>3, <1>4 DEF WriterInv

LEMMA PowerLossKeeps ==
    ASSUME WriterInv, PowerLoss
    PROVE  WriterInv'
<1>1. /\ dir' = disk /\ losses' = losses + 1
      /\ UNCHANGED <<disk, safe, nextSeq, wr, stuck>>
      /\ alive' = [p \in Procs |-> alive[p] /\ nextSeq[p] = 0]
      /\ \A w \in Writers : size'[w] \in safe[w]..size[w]
      /\ size' = [w \in Writers |-> size'[w]]
  BY DEF PowerLoss
<1>2. ASSUME NEW w \in Writers
      PROVE  /\ size'[w] \in Nat /\ safe[w] <= size'[w] /\ size'[w] <= Size[w]
             /\ CallInv(w) /\ BytesInv(w)
  <2>1. /\ CallInv(w) /\ BytesInv(w)
        /\ size[w] \in Nat /\ safe[w] \in Nat /\ Size[w] \in Nat
    BY WriterAssumption DEF WriterInv, TypeOK
  <2>2. QED
    BY <1>1, <2>1 DEF BytesInv
<1>3. TypeOK'
  <2>1. size' \in [Writers -> Nat]
    BY <1>1, <1>2
  <2>2. alive' \in [Procs -> BOOLEAN]
    BY <1>1
  <2>3. QED
    BY <1>1, <2>1, <2>2 DEF WriterInv, TypeOK
<1>4. ASSUME NEW w \in Writers, Alive(w)'
      PROVE  wr[w].pc = "new"
  <2>1. ProcOf[w] \in Procs
    BY WriterAssumption
  <2>2. nextSeq[ProcOf[w]] = 0
    BY <1>1, <1>4, <2>1 DEF Alive
  <2>3. QED
    BY <1>2, <2>2 DEF CallInv
<1>5. ASSUME NEW w \in Writers
      PROVE  CallInv(w)' /\ BytesInv(w)'
  BY <1>1, <1>2 DEF CallInv, BytesInv
<1>6. ASSUME NEW w \in Writers, Alive(w)'
      PROVE  OwnInv(w)'
  <2>1. /\ wr[w].pc = "new" /\ wr[w].temp = NoPath /\ wr[w].suffix = 0
        /\ wr[w].result = "none"
    BY <1>2, <1>4, <1>6 DEF CallInv
  <2>2. \A n \in DOMAIN disk : disk[n] # w
    BY <2>1 DEF WriterInv, NamesInv
  <2>3. \A s \in 0..(MaxSuffix - 1) : ~(s < 0)
    BY WriterAssumption
  <2>4. QED
    BY <1>1, <2>1, <2>2, <2>3 DEF OwnInv, Named
<1>7. NamesInv(dir)' /\ NamesInv(disk)' /\ DiskInv'
  BY <1>1 DEF WriterInv, NamesInv, DiskInv
<1>8. NoLitter'
  <2>1. \A n \in DOMAIN disk : disk[n] \in Writers /\ wr[disk[n]].pc # "new"
    BY DEF WriterInv, NamesInv, TypeOK, IsDirectory
  <2>2. QED
    BY <1>1, <1>4, <2>1 DEF NoLitter
<1>9. QED
  BY <1>3, <1>5, <1>6, <1>7, <1>8 DEF WriterInv

-----------------------------------------------------------------------------
(* The theorems.                                                           *)

LEMMA Start == Init => WriterInv
<1> SUFFICES ASSUME Init PROVE WriterInv
  OBVIOUS
<1>1. DOMAIN dir = {} /\ DOMAIN disk = {}
  BY DEF Init
<1>2. NewWriter \in WriterType
  BY WriterAssumption DEF NewWriter, WriterType
<1>3. TypeOK
  BY <1>1, <1>2 DEF Init, TypeOK, IsDirectory
<1>4. ASSUME NEW w \in Writers
      PROVE  CallInv(w) /\ BytesInv(w) /\ OwnInv(w)
  <2>1. wr[w] = NewWriter /\ size[w] = 0 /\ safe[w] = 0 /\ Size[w] \in Nat
    BY WriterAssumption DEF Init
  <2>2. CallInv(w)
    BY <2>1 DEF CallInv, NewWriter
  <2>3. BytesInv(w)
    BY <2>1 DEF BytesInv, NewWriter
  <2>4. \A s \in 0..(MaxSuffix - 1) : ~(s < 0)
    BY WriterAssumption
  <2>5. OwnInv(w)
    BY <1>1, <2>1, <2>4 DEF OwnInv, Named, NewWriter
  <2>6. QED
    BY <2>2, <2>3, <2>5
<1>5. NamesInv(dir) /\ NamesInv(disk) /\ DiskInv /\ NoLitter
  BY <1>1 DEF NamesInv, DiskInv, NoLitter
<1>6. QED
  BY <1>3, <1>4, <1>5 DEF WriterInv

LEMMA Keep == WriterInv /\ [Next]_vars => WriterInv'
<1> SUFFICES ASSUME WriterInv, [Next]_vars PROVE WriterInv'
  OBVIOUS
<1>1. ASSUME NEW w \in Writers, WriterStep(w) PROVE WriterInv'
  BY <1>1, WriterKeeps
<1>2. ASSUME NEW p \in Procs, Crash(p) PROVE WriterInv'
  BY <1>2, CrashKeeps
<1>3. CASE Flush
  BY <1>3, FlushKeeps DEF Flush
<1>4. CASE PowerLoss
  BY <1>4, PowerLossKeeps
<1>5. CASE UNCHANGED vars
  BY <1>5, FlushKeeps DEF vars
<1>6. QED
  BY <1>1, <1>2, <1>3, <1>4, <1>5 DEF Next

\* The inductive invariant holds of every run of the programs, however many
\* share the directory (FileWriter::open, write, commit, abort).
THEOREM Inductive == Spec => []WriterInv
<1>1. Init => WriterInv
  BY Start
<1>2. WriterInv /\ [Next]_vars => WriterInv'
  BY Keep
<1>3. QED
  BY <1>1, <1>2, PTL DEF Spec

LEMMA Implied ==
    WriterInv => /\ TypeOK /\ TempIsOwn /\ FilesComplete /\ ReportsTrue
                 /\ NoLitter /\ RefusedOnlyWhenFull
<1> SUFFICES ASSUME WriterInv
             PROVE  /\ TypeOK /\ TempIsOwn /\ FilesComplete /\ ReportsTrue
                    /\ NoLitter /\ RefusedOnlyWhenFull
  OBVIOUS
<1>1. TypeOK /\ NoLitter
  BY DEF WriterInv
<1>2. TempIsOwn
  BY DEF WriterInv, OwnInv, TempIsOwn
<1>3. FilesComplete
  <2> SUFFICES ASSUME NEW n \in DOMAIN dir \cap FinalNames
               PROVE  size[dir[n]] = Size[dir[n]]
    BY DEF FilesComplete
  <2>1. dir[n] \in Writers /\ safe[dir[n]] = Size[dir[n]]
    BY DEF WriterInv, TypeOK, IsDirectory, NamesInv
  <2>2. /\ safe[dir[n]] \in Nat /\ size[dir[n]] \in Nat
        /\ safe[dir[n]] <= size[dir[n]] /\ size[dir[n]] <= Size[dir[n]]
    BY <2>1 DEF WriterInv, TypeOK, BytesInv
  <2>3. QED
    BY <2>1, <2>2
<1>4. ReportsTrue
  <2> SUFFICES ASSUME NEW w \in Writers, Alive(w), wr[w].pc = "done"
               PROVE  {n \in DOMAIN dir \cap FinalNames : dir[n] = w} =
                         IF wr[w].result = "stored" THEN {FinalName(w)} ELSE {}
    BY DEF ReportsTrue
  <2>1. CallInv(w) /\ OwnInv(w) /\ wr[w] \in WriterType
    BY DEF WriterInv, TypeOK
  <2>2. CASE wr[w].result = "stored"
    <3>1. FinalName(w) \in DOMAIN dir /\ dir[FinalName(w)] = w
      BY <2>1, <2>2 DEF OwnInv, Named, Bound
    <3>2. FinalName(w) \in FinalNames
      BY <1>1, <3>1, SuffixedIsFinal DEF FinalName, TypeOK
    <3>3. QED
      BY <2>1, <2>2, <3>1, <3>2 DEF OwnInv
  <2>3. CASE wr[w].result # "stored"
    BY <2>1, <2>3 DEF OwnInv, Named
  <2>4. QED
    BY <2>2, <2>3
<1>5. RefusedOnlyWhenFull
  <2> SUFFICES ASSUME NEW w \in Writers, Alive(w), wr[w].suffix = MaxSuffix,
                      NEW s \in 0..(MaxSuffix - 1)
               PROVE  Bound([stamp |-> wr[w].stamp, suffix |-> s])
    BY DEF RefusedOnlyWhenFull
  <2>1. s < MaxSuffix /\ OwnInv(w)
    BY WriterAssumption DEF WriterInv
  <2>2. QED
    BY <2>1 DEF OwnInv
<1>6. QED
  BY <1>1, <1>2, <1>3, <1>4, <1>5

\* Every variable keeps to its type (FileWriter's members, the directory).
THEOREM Types == Spec => []TypeOK
BY Inductive, Implied, PTL

\* The name in m_tempPath is always the writer's own, whoever shares directory
\* and process number (FileWriter::open, O_EXCL).
THEOREM OwnTemp == Spec => []TempIsOwn
BY Inductive, Implied, PTL

\* No partial file is ever published, power failures included
\* (FileWriter::commit: fsync before link).
THEOREM Complete == Spec => []FilesComplete
BY Inductive, Implied, PTL

\* The session is told the truth about its file (commit's and abort's results).
THEOREM TrueReports == Spec => []ReportsTrue
BY Inductive, Implied, PTL

\* What is under a temporary name is still received, or left by a crash or a
\* failed unlink (FileWriter::abort, commit).
THEOREM Tidy == Spec => []NoLitter
BY Inductive, Implied, PTL

\* The loop over suffixes gives up only when all names are taken
\* (FileWriter::commit).
THEOREM FullRefusal == Spec => []RefusedOnlyWhenFull
BY Inductive, Implied, PTL

\* Final names stay with their files in every step but a power failure.
LEMMA Kept ==
    ASSUME WriterInv, [Next]_vars, losses' = losses,
           NEW n \in DOMAIN dir \cap FinalNames
    PROVE  n \in DOMAIN dir' /\ dir'[n] = dir[n]
<1>1. ASSUME NEW w \in Writers, WriterStep(w)
      PROVE  n \in DOMAIN dir' /\ dir'[n] = dir[n]
  <2>1. ASSUME Remove(w), Turn(w), wr[w].pc \in {"open", "unlink", "abort"}
        PROVE  n \in DOMAIN dir' /\ dir'[n] = dir[n]
    <3>1. Alive(w) /\ CallInv(w)
      BY <2>1, AtWork
    <3>2. wr[w].temp # NoPath
      BY <2>1, <3>1 DEF CallInv
    <3>3. DirStep(w)
      BY <2>1, <3>1, <3>2, RemoveStep
    <3>4. QED
      BY <3>3 DEF DirStep
  <2>2. ASSUME NEW name, NEW v, Creates(name), Bind(name, v)
        PROVE  n \in DOMAIN dir' /\ dir'[n] = dir[n]
    BY <2>2 DEF Creates, Bound, Bind
  <2>3. CASE Open(w)
    BY <2>2, <2>3 DEF Open
  <2>4. CASE Link(w)
    BY <2>2, <2>4 DEF Link
  <2>5. CASE Write(w) \/ Sync(w)
    BY <2>5 DEF Write, Sync
  <2>6. CASE Unlink(w) \/ Abort(w)
    BY <2>1, <2>6 DEF Unlink, Abort
  <2>7. QED
    BY <1>1, <2>3, <2>4, <2>5, <2>6 DEF WriterStep
<1>2. ~PowerLoss
  BY DEF PowerLoss, WriterInv, TypeOK
<1>3. CASE UNCHANGED dir
  BY <1>3
<1>4. QED
  BY <1>1, <1>2, <1>3 DEF Next, vars, Crash, Flush

\* A published file is never replaced nor removed but by a power failure
\* (FileWriter::commit, "publication cannot overwrite").
THEOREM NoReplacement == Spec => NeverReplaced
<1>1. WriterInv /\ [Next]_vars =>
         [losses' = losses =>
            \A n \in DOMAIN dir \cap FinalNames : n \in DOMAIN dir' /\ dir'[n] = dir[n]]_vars
  BY Kept
<1>2. QED
  BY <1>1, Inductive, PTL DEF Spec, NeverReplaced

-----------------------------------------------------------------------------
(* The refinement.                                                         *)

Files == [n \in DOMAIN dir \cap FinalNames |-> dir[n]]
Verdict == [w \in Writers |-> wr[w].result]

LEMMA SameFiles ==
    ASSUME DOMAIN dir' \cap FinalNames = DOMAIN dir \cap FinalNames,
           \A n \in DOMAIN dir \cap FinalNames : dir'[n] = dir[n]
    PROVE  Files' = Files
BY DEF Files

\* A call that ends tells its own session, and one that does not, none.
LEMMA Tells ==
    ASSUME NEW w \in Writers, wr \in [Writers -> WriterType],
           NEW x \in WriterType, wr' = [wr EXCEPT ![w] = x]
    PROVE  Verdict' = [Verdict EXCEPT ![w] = x.result]
BY DEF Verdict

\* Published, in the directory, is what Named says of the writer.
LEMMA PublishedIsNamed ==
    ASSUME WriterInv, NEW w \in Writers, Alive(w)
    PROVE  (\E n \in DOMAIN Files : Files[n] = w) <=> Named(w)
<1>1. OwnInv(w) /\ CallInv(w) /\ IsDirectory(dir)
  BY DEF WriterInv, TypeOK
<1>2. ASSUME Named(w) PROVE \E n \in DOMAIN Files : Files[n] = w
  <2>1. FinalName(w) \in DOMAIN dir /\ dir[FinalName(w)] = w
    BY <1>1, <1>2 DEF OwnInv, Bound
  <2>2. FinalName(w) \in FinalNames
    BY <1>1, <2>1, SuffixedIsFinal DEF FinalName
  <2>3. QED
    BY <2>1, <2>2 DEF Files
<1>3. QED
  BY <1>1, <1>2 DEF OwnInv, Files

LEMMA StutterRefines ==
    ASSUME Files' = Files, Verdict' = Verdict
    PROVE  UNCHANGED inbox!inboxVars
BY DEF inbox!inboxVars, Files, Verdict

\* An error, with the final names as they were.
LEMMA RejectRefines ==
    ASSUME WriterInv, NEW w \in Writers, Turn(w), ~Named(w), wr[w].result = "none",
           Files' = Files, Done(w, "error")
    PROVE  inbox!Reject(w)
<1>1. Alive(w) /\ wr \in [Writers -> WriterType] /\ wr[w] \in WriterType
  BY AtWork
<1>2. Verdict' = [Verdict EXCEPT ![w] = "error"]
  BY <1>1 DEF Done, Verdict, WriterType
<1>3. Verdict[w] = "none" /\ ~(\E n \in DOMAIN Files : Files[n] = w)
  BY <1>1, PublishedIsNamed DEF Verdict
<1>4. QED
  BY <1>2, <1>3 DEF inbox!Reject, inbox!Published, Files, Verdict

LEMMA ConfirmRefines ==
    ASSUME WriterInv, NEW w \in Writers, Turn(w), Named(w), wr[w].result = "none",
           Files' = Files, Done(w, "stored")
    PROVE  inbox!Confirm(w)
<1>1. Alive(w) /\ wr \in [Writers -> WriterType] /\ wr[w] \in WriterType
  BY AtWork
<1>2. Verdict' = [Verdict EXCEPT ![w] = "stored"]
  BY <1>1 DEF Done, Verdict, WriterType
<1>3. Verdict[w] = "none" /\ \E n \in DOMAIN Files : Files[n] = w
  BY <1>1, PublishedIsNamed DEF Verdict
<1>4. QED
  BY <1>2, <1>3 DEF inbox!Confirm, inbox!Published, Files, Verdict

LEMMA LinkRefines ==
    ASSUME WriterInv, NEW w \in Writers, Link(w)
    PROVE  [inbox!InboxNext]_inbox!inboxVars
<1> DEFINE name == FinalName(w)
<1>1. Turn(w) /\ wr[w].pc = "link"
  BY DEF Link
<1>2. /\ Alive(w) /\ TypeOK /\ CallInv(w) /\ OwnInv(w)
      /\ wr \in [Writers -> WriterType] /\ wr[w] \in WriterType /\ MaxSuffix \in Nat
  BY <1>1, AtWork
<1>3. /\ wr[w].temp # NoPath /\ wr[w].result = "none" /\ ~Named(w)
      /\ name \in FinalNames
  <2>1. /\ wr[w].temp # NoPath /\ wr[w].result = "none" /\ ~Named(w)
        /\ wr[w].stamp \in Stamps /\ wr[w].suffix \in Nat /\ wr[w].suffix < MaxSuffix
    BY <1>1, <1>2 DEF CallInv, Named, WriterType
  <2>2. QED
    BY <1>2, <2>1 DEF FinalName, FinalNames
<1>4. CASE Creates(name) /\ Bind(name, dir[wr[w].temp]) /\ Goto(w, "unlink")
  <2>1. dir[wr[w].temp] = w
    BY <1>2, <1>3 DEF OwnInv
  <2>2. Files' = [n \in DOMAIN Files \cup {name} |-> IF n = name THEN w ELSE Files[n]]
    BY <1>3, <1>4, <2>1 DEF Bind, Files
  <2>3. Verdict' = Verdict
    BY <1>2, <1>4 DEF Goto, Verdict, WriterType
  <2>4. /\ Verdict[w] = "none" /\ name \notin DOMAIN Files
        /\ ~(\E n \in DOMAIN Files : Files[n] = w)
    BY <1>2, <1>3, <1>4, PublishedIsNamed DEF Verdict, Files, Creates, Bound
  <2>5. PICK n \in FinalNames : n = name
    BY <1>3
  <2>6. inbox!Publish(w, n)
    BY <2>2, <2>3, <2>4, <2>5 DEF inbox!Publish, inbox!Published, Files, Verdict
  <2>7. QED
    BY <2>6 DEF inbox!InboxNext
<1>5. ASSUME UNCHANGED dir, Verdict' = Verdict
      PROVE  [inbox!InboxNext]_inbox!inboxVars
  BY <1>5, SameFiles, StutterRefines
<1>6. CASE LinkError(w) /\ UNCHANGED dir
  <2>1. Verdict' = Verdict
    BY <1>2, <1>6 DEF LinkError, Goto, Verdict, WriterType
  <2>2. QED
    BY <1>5, <1>6, <2>1
<1>7. CASE /\ wr' = IF More(wr[w].suffix + 1) THEN [wr EXCEPT ![w].suffix = wr[w].suffix + 1]
                    ELSE [wr EXCEPT ![w].suffix = MaxSuffix, ![w].pc = "abort"]
           /\ UNCHANGED dir
  <2>1. Verdict' = Verdict
    BY <1>2, <1>7 DEF Verdict, WriterType
  <2>2. QED
    BY <1>5, <1>7, <2>1
<1>8. QED
  BY <1>4, <1>6, <1>7 DEF Link, FinalName

LEMMA WriterRefines ==
    ASSUME WriterInv, NEW w \in Writers, WriterStep(w)
    PROVE  [inbox!InboxNext]_inbox!inboxVars
<1>1. ASSUME Turn(w)
      PROVE  /\ Alive(w) /\ TypeOK /\ CallInv(w) /\ OwnInv(w) /\ ProcOf[w] \in Procs
             /\ wr \in [Writers -> WriterType] /\ wr[w] \in WriterType
  BY <1>1, AtWork
<1>2. CASE Open(w)
  <2> DEFINE name == [pid |-> PidOf[ProcOf[w]], seq |-> nextSeq[ProcOf[w]]]
  <2>1. Turn(w) /\ wr[w].pc = "new" /\ wr[w].result = "none" /\ ~Named(w)
    BY <1>1, <1>2 DEF Open, CallInv, Named
  <2>2. CASE /\ Bind(name, w)
             /\ wr' = [wr EXCEPT ![w].pc = "open", ![w].temp = name]
    <3>1. name \notin FinalNames
      BY <1>1, <2>1, WriterAssumption, NamesApart DEF TypeOK, TempNames
    <3>2. Files' = Files
      BY <2>2, <3>1 DEF Bind, Files
    <3>3. Verdict' = Verdict
      BY <1>1, <2>1, <2>2 DEF Verdict, WriterType
    <3>4. QED
      BY <3>2, <3>3, StutterRefines
  <2>3. CASE Done(w, "error") /\ UNCHANGED dir
    <3>1. inbox!Reject(w)
      BY <2>1, <2>3, SameFiles, RejectRefines
    <3>2. QED
      BY <3>1 DEF inbox!InboxNext
  <2>4. QED
    BY <1>2, <2>2, <2>3 DEF Open
<1>3. CASE Write(w) \/ Sync(w)
  <2>1. Turn(w) /\ UNCHANGED dir
    BY <1>3 DEF Write, Sync
  <2>2. Verdict' = Verdict
    BY <1>1, <1>3, <2>1 DEF Write, Sync, Goto, Verdict, WriterType
  <2>3. QED
    BY <2>1, <2>2, SameFiles, StutterRefines
<1>4. CASE Unlink(w) \/ Abort(w)
  <2>1. Turn(w) /\ Remove(w) /\ wr[w].pc \in {"open", "unlink", "abort"}
    BY <1>4 DEF Unlink, Abort
  <2>2. /\ wr[w].temp # NoPath /\ wr[w].result = "none"
        /\ (Named(w) <=> wr[w].pc = "unlink")
    BY <1>1, <2>1 DEF CallInv, Named
  <2>3. Files' = Files
    BY <1>1, <2>1, <2>2, RemoveStep, SameFiles
  <2>4. CASE Unlink(w)
    <3>1. inbox!Confirm(w)
      BY <2>1, <2>2, <2>3, <2>4, ConfirmRefines DEF Unlink
    <3>2. QED
      BY <3>1 DEF inbox!InboxNext
  <2>5. CASE Abort(w)
    <3>1. inbox!Reject(w)
      BY <2>1, <2>2, <2>3, <2>5, RejectRefines DEF Abort
    <3>2. QED
      BY <3>1 DEF inbox!InboxNext
  <2>6. QED
    BY <1>4, <2>4, <2>5
<1>5. QED
  BY <1>2, <1>3, <1>4, LinkRefines DEF WriterStep

LEMMA PowerLossRefines ==
    ASSUME WriterInv, PowerLoss
    PROVE  [inbox!InboxNext]_inbox!inboxVars
<1> DEFINE kept == DOMAIN disk \cap FinalNames
<1>1. dir' = disk /\ UNCHANGED wr
  BY DEF PowerLoss
<1>2. kept \subseteq DOMAIN Files /\ \A n \in kept : disk[n] = Files[n]
  BY DEF WriterInv, DiskInv, Files
<1>3. Files' = [n \in kept |-> Files[n]] /\ Verdict' = Verdict
  BY <1>1, <1>2 DEF Files, Verdict
<1>4. inbox!Lose
  BY <1>2, <1>3 DEF inbox!Lose, Files, Verdict
<1>5. QED
  BY <1>4 DEF inbox!InboxNext

\* Storing files is an Inbox: a file appears whole, at once, under a free name,
\* and the session hears "stored" only after that (FileWriter::commit).
THEOREM Implements == Spec => ImplementsInbox
<1>1. Init => inbox!InboxInit
  BY DEF Init, NewWriter, inbox!InboxInit
<1>2. WriterInv /\ [Next]_vars => [inbox!InboxNext]_inbox!inboxVars
  <2> SUFFICES ASSUME WriterInv, [Next]_vars
               PROVE  [inbox!InboxNext]_inbox!inboxVars
    OBVIOUS
  <2>1. CASE UNCHANGED <<dir, wr>>
    <3>1. Files' = Files /\ Verdict' = Verdict
      BY <2>1 DEF Files, Verdict
    <3>2. QED
      BY <3>1, StutterRefines
  <2>2. QED
    BY <2>1, WriterRefines, PowerLossRefines DEF Next, vars, Crash, Flush
<1>3. QED
  BY <1>1, <1>2, Inductive, PTL DEF Spec, ImplementsInbox, inbox!InboxSpec
=============================================================================

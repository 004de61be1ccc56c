---- MODULE SurfacePipeline_proofs ----
(***************************************************************************)
(* Whatever the other processes, and the faults, do to the cache           *)
(* directory, a process uses the surfaces of its own version: for any      *)
(* number of processes, threads, versions, files and pieces, and any of    *)
(* the faults.  If no process is forked from another, so that salts        *)
(* differ, the file of the path is an AtomicFile and no temporary stays    *)
(* behind a process that runs.                                             *)
(***************************************************************************)
EXTENDS SurfacePipeline, TLAPS

Fields == {"stage", "surface", "temp", "file", "size", "piece"}

\* From the build or the load on, the surface a call has in hand is of its own version.
Holding == {"temp", "write", "rename", "put"}
OwnCall(t, c) == DOMAIN c = Fields /\ (c.stage \in Holding => c.surface = Version(t))

OwnInv ==
    /\ DOMAIN memory = Processes
    /\ DOMAIN resident = Threads
    /\ DOMAIN call = Threads
    /\ \A t \in Threads : OwnCall(t, call[t])
    /\ SurfacesAreOwn

LEMMA IdleLemma == \A t : OwnCall(t, Idle)
  BY DEF OwnCall, Idle, Fields, Holding

\* The step moves thread t to call c, and no other.
Moves(t, c) == call' = [call EXCEPT ![t] = c]

LEMMA MovesLemma ==
    ASSUME OwnInv, NEW t \in Threads, NEW c, OwnCall(t, c), Moves(t, c)
    PROVE  DOMAIN call' = Threads /\ \A u \in Threads : OwnCall(u, call'[u])
<1>1. DOMAIN call' = Threads /\ call'[t] = c /\ \A u \in Threads \ {t} : call'[u] = call[u]
  BY DEF OwnInv, Moves
<1> QED BY <1>1 DEF OwnInv

\* A call that goes on to another stage keeps the surface it has in hand.
LEMMA GotoLemma ==
    ASSUME OwnInv, NEW t \in Threads, NEW s, Goto(t, s),
           s \in Holding => call[t].stage \in Holding
    PROVE  DOMAIN call' = Threads /\ \A u \in Threads : OwnCall(u, call'[u])
<1> DEFINE c == [call[t] EXCEPT !.stage = s]
<1>1. Moves(t, c)
  BY DEF Goto, Moves
<1>2. DOMAIN call[t] = Fields /\ (call[t].stage \in Holding => call[t].surface = Version(t))
  BY DEF OwnInv, OwnCall
<1>3. DOMAIN c = Fields /\ c.stage = s /\ c.surface = call[t].surface
  BY <1>2 DEF Fields
<1>4. OwnCall(t, c)
  BY <1>2, <1>3 DEF OwnCall
<1> HIDE DEF c
<1> QED BY <1>1, <1>4, MovesLemma

\* Leaving ensure_surface_, by an exception or with a surface of the own version.
LEMMA LeaveLemma ==
    ASSUME OwnInv, NEW t \in Threads, UNCHANGED memory,
           Throw(t) \/ Reside(t, Version(t))
    PROVE  OwnInv'
<1>1. Moves(t, Idle)
  BY DEF Throw, Reside, Moves
<1>2. DOMAIN call' = Threads /\ \A u \in Threads : OwnCall(u, call'[u])
  BY <1>1, IdleLemma, MovesLemma
<1>3. DOMAIN resident' = Threads /\ \A u \in Threads : resident'[u] \in {None, Version(u)}
  BY DEF OwnInv, SurfacesAreOwn, Throw, Reside
<1> QED BY <1>2, <1>3 DEF OwnInv, SurfacesAreOwn, OwnCall, Version

\* Every other step of a thread only moves its call.
LEMMA KeepLemma ==
    ASSUME OwnInv, UNCHANGED <<memory, resident>>,
           DOMAIN call' = Threads, \A u \in Threads : OwnCall(u, call'[u])
    PROVE  OwnInv'
  BY DEF OwnInv, SurfacesAreOwn, OwnCall, Version

\* What is loaded from a file is of the own version.
LEMMA LoadLemma ==
    ASSUME NEW t \in Threads, NEW pieces, Loads(t, pieces)
    PROVE  pieces[1] = Version(t)
  BY PipelineAssumption DEF Loads, Whole

LEMMA StepLemma ==
    ASSUME OwnInv, NEW t \in Threads, Step(t)
    PROVE  OwnInv'
<1> DEFINE Safe == DOMAIN call' = Threads /\ \A u \in Threads : OwnCall(u, call'[u])
<1>0. DOMAIN call[t] = Fields /\ (call[t].stage \in Holding => call[t].surface = Version(t))
  BY DEF OwnInv, OwnCall
<1>1. CASE CacheGet(t)
  <2>1. CASE memory[ProcessOf[t]] # None
    <3>1. memory[ProcessOf[t]] = Version(t)
      BY <2>1, PipelineAssumption DEF OwnInv, SurfacesAreOwn, Version
    <3> QED BY <1>1, <2>1, <3>1, LeaveLemma DEF CacheGet
  <2>2. CASE memory[ProcessOf[t]] = None
    <3>1. Goto(t, "exists") /\ UNCHANGED <<memory, resident>>
      BY <1>1, <2>2 DEF CacheGet
    <3>2. Safe
      BY <3>1, GotoLemma DEF Holding
    <3> QED BY <3>1, <3>2, KeepLemma
  <2> QED BY <2>1, <2>2
<1>2. CASE Exists(t)
  <2>1. CASE Throw(t)
    BY <1>2, <2>1, LeaveLemma DEF Exists
  <2>2. ASSUME NEW s \in {"open", "build"}, Goto(t, s), UNCHANGED <<memory, resident>>
        PROVE  OwnInv'
    <3>1. Safe
      BY <2>2, GotoLemma DEF Holding
    <3> QED BY <2>2, <3>1, KeepLemma
  <2> QED BY <1>2, <2>1, <2>2 DEF Exists
<1>3. CASE Open(t)
  <2>1. UNCHANGED <<memory, resident>>
    BY <1>3 DEF Open
  <2>2. CASE Goto(t, "build")
    <3>1. Safe
      BY <2>2, GotoLemma DEF Holding
    <3> QED BY <2>1, <3>1, KeepLemma
  <2>3. CASE ~Goto(t, "build")
    <3> DEFINE n == Len(data[names[Target]])
               c1 == [call[t] EXCEPT !.stage = "read"]
               c2 == [c1 EXCEPT !.file = names[Target]]
               c == [c2 EXCEPT !.size = n]
    <3>1. Moves(t, c)
      BY <1>3, <2>3 DEF Open, Moves
    <3>2. DOMAIN c1 = Fields /\ c1.stage = "read"
      BY <1>0 DEF Fields
    <3>3. DOMAIN c = Fields /\ c.stage = "read"
      BY <3>2 DEF Fields
    <3> HIDE DEF c
    <3>4. Safe
      BY <3>1, <3>3, MovesLemma DEF OwnCall, Holding
    <3> QED BY <2>1, <3>4, KeepLemma
  <2> QED BY <2>2, <2>3
<1>4. CASE Read(t)
  <2>1. UNCHANGED <<memory, resident>>
    BY <1>4 DEF Read
  <2>2. CASE Loads(t, Buffer(t))
    <3> DEFINE c == [Idle EXCEPT !.stage = "put", !.surface = Buffer(t)[1]]
    <3>1. Moves(t, c)
      BY <1>4, <2>2 DEF Read, Moves
    <3>2. DOMAIN c = Fields /\ c.surface = Version(t)
      BY <2>2, LoadLemma DEF Fields, Idle
    <3> HIDE DEF c
    <3>3. Safe
      BY <3>1, <3>2, MovesLemma DEF OwnCall
    <3> QED BY <2>1, <3>3, KeepLemma
  <2>3. CASE ~Loads(t, Buffer(t))
    <3> DEFINE c == [Idle EXCEPT !.stage = "build"]
    <3>1. Moves(t, c)
      BY <1>4, <2>3 DEF Read, Moves
    <3>2. DOMAIN c = Fields /\ c.stage = "build"
      BY DEF Fields, Idle
    <3> HIDE DEF c
    <3>3. Safe
      BY <3>1, <3>2, MovesLemma DEF OwnCall, Holding
    <3> QED BY <2>1, <3>3, KeepLemma
  <2> QED BY <2>2, <2>3
<1>5. CASE Build(t)
  <2>1. CASE Throw(t)
    BY <1>5, <2>1, LeaveLemma DEF Build
  <2>2. CASE ~Throw(t)
    <3> DEFINE c1 == [call[t] EXCEPT !.stage = "temp"]
               c == [c1 EXCEPT !.surface = Version(t)]
    <3>1. Moves(t, c) /\ UNCHANGED <<memory, resident>>
      BY <1>5, <2>2 DEF Build, Moves
    <3>2. DOMAIN c1 = Fields
      BY <1>0 DEF Fields
    <3>3. DOMAIN c = Fields /\ c.surface = Version(t)
      BY <3>2 DEF Fields
    <3> HIDE DEF c
    <3>4. Safe
      BY <3>1, <3>3, MovesLemma DEF OwnCall
    <3> QED BY <3>1, <3>4, KeepLemma
  <2> QED BY <2>1, <2>2
<1>6. CASE OpenTemp(t) \/ WritePiece(t) \/ Rename(t)
  <2>1. UNCHANGED <<memory, resident>> /\ call[t].stage \in Holding
    BY <1>6 DEF OpenTemp, WritePiece, Rename, At, Holding
  <2>2. \E c : Moves(t, c) /\ DOMAIN c = Fields /\ c.surface = call[t].surface
    <3>1. ASSUME NEW s, Goto(t, s)
          PROVE  \E c : Moves(t, c) /\ DOMAIN c = Fields /\ c.surface = call[t].surface
      <4> DEFINE c == [call[t] EXCEPT !.stage = s]
      <4>1. Moves(t, c) /\ DOMAIN c = Fields /\ c.surface = call[t].surface
        BY <1>0, <3>1 DEF Goto, Moves, Fields
      <4> HIDE DEF c
      <4> QED BY <4>1
    <3>2. ASSUME GiveUp(t)
          PROVE  \E c : Moves(t, c) /\ DOMAIN c = Fields /\ c.surface = call[t].surface
      <4> DEFINE c == [call[t] EXCEPT !.stage = "put", !.temp = Target, !.file = None]
      <4>1. Moves(t, c)
        BY <3>2 DEF GiveUp, Moves
      <4>2. DOMAIN c = Fields /\ c.surface = call[t].surface
        BY <1>0 DEF Fields
      <4> HIDE DEF c
      <4> QED BY <4>1, <4>2
    <3>3. CASE OpenTemp(t)
      <4> DEFINE f == IF TempSibling(t) \in DOMAIN names THEN names[TempSibling(t)]
                      ELSE CHOOSE g \in Unused : TRUE
                 c == [call[t] EXCEPT !.stage = "write", !.temp = TempSibling(t), !.file = f, !.piece = 1]
      <4>1. Moves(t, c) \/ Goto(t, "put")
        BY <3>3 DEF OpenTemp, Moves
      <4>2. DOMAIN c = Fields /\ c.surface = call[t].surface
        BY <1>0 DEF Fields
      <4> HIDE DEF c
      <4> QED BY <3>1, <4>1, <4>2
    <3>4. CASE WritePiece(t)
      <4> DEFINE s == IF call[t].piece = Pieces THEN "rename" ELSE "write"
                 c == [call[t] EXCEPT !.stage = s, !.piece = @ + 1]
      <4>1. Moves(t, c) \/ GiveUp(t)
        BY <3>4 DEF WritePiece, Moves
      <4>2. DOMAIN c = Fields /\ c.surface = call[t].surface
        BY <1>0 DEF Fields
      <4> HIDE DEF c
      <4> QED BY <3>2, <4>1, <4>2
    <3>5. CASE Rename(t)
      <4> DEFINE c == [call[t] EXCEPT !.stage = "put", !.temp = Target, !.file = None]
      <4>1. Moves(t, c) \/ GiveUp(t)
        BY <3>5 DEF Rename, Moves
      <4>2. DOMAIN c = Fields /\ c.surface = call[t].surface
        BY <1>0 DEF Fields
      <4> HIDE DEF c
      <4> QED BY <3>2, <4>1, <4>2
    <3> QED BY <1>6, <3>3, <3>4, <3>5
  <2>3. Safe
    BY <1>0, <2>1, <2>2, MovesLemma DEF OwnCall
  <2> QED BY <2>1, <2>3, KeepLemma
<1>7. CASE CachePut(t)
  <2>1. call[t].surface = Version(t)
    BY <1>0, <1>7 DEF CachePut, At, Holding
  <2>2. Moves(t, Idle) /\ resident' = [resident EXCEPT ![t] = Version(t)]
        /\ memory' = [memory EXCEPT ![ProcessOf[t]] = Version(t)]
    BY <1>7, <2>1 DEF CachePut, Reside, Moves
  <2>3. Safe
    BY <2>2, IdleLemma, MovesLemma
  <2>4. SurfacesAreOwn' /\ DOMAIN memory' = Processes /\ DOMAIN resident' = Threads
    BY <2>2, PipelineAssumption DEF OwnInv, SurfacesAreOwn, Version
  <2> QED BY <2>3, <2>4 DEF OwnInv, OwnCall, Version
<1> QED BY <1>1, <1>2, <1>3, <1>4, <1>5, <1>6, <1>7 DEF Step

LEMMA OwnStep ==
    ASSUME OwnInv, [Next]_vars
    PROVE  OwnInv'
<1>1. ASSUME UNCHANGED <<memory, resident, call>>
      PROVE  OwnInv'
  BY <1>1 DEF OwnInv, SurfacesAreOwn, OwnCall, Version
<1>2. ASSUME NEW t \in Threads, Ensure(t)
      PROVE  OwnInv'
  <2>1. DOMAIN call' = Threads /\ \A u \in Threads : OwnCall(u, call'[u])
    BY <1>2, GotoLemma DEF Ensure, Holding
  <2> QED BY <1>2, <2>1, KeepLemma DEF Ensure
<1>3. ASSUME NEW t \in Threads, NewBackend(t)
      PROVE  OwnInv'
  BY <1>3 DEF NewBackend, OwnInv, SurfacesAreOwn, OwnCall, Version
<1>4. ASSUME NEW p \in Processes, Forget(p)
      PROVE  OwnInv'
  BY <1>4 DEF Forget, OwnInv, SurfacesAreOwn, OwnCall, Version
<1>5. ASSUME NEW p \in Processes, Start(p)
      PROVE  OwnInv'
  <2>1. PICK q \in Origins(p) : memory' = [memory EXCEPT ![p] = memory[q]]
    BY <1>5 DEF Start
  <2>2. q \in Processes /\ VersionOf[q] = VersionOf[p]
    BY <2>1 DEF Origins
  <2>3. UNCHANGED <<resident, call>>
    BY <1>5 DEF Start
  <2> QED BY <2>1, <2>2, <2>3 DEF OwnInv, SurfacesAreOwn, OwnCall, Version
<1>6. ASSUME NEW p \in Processes, Crash(p)
      PROVE  OwnInv'
  <2>1. \A t \in Threads : call'[t] = Idle \/ call'[t] = call[t]
    BY <1>6 DEF Crash
  <2>2. DOMAIN call' = Threads /\ DOMAIN resident' = Threads /\ DOMAIN memory' = Processes
    BY <1>6 DEF Crash, OwnInv
  <2>3. SurfacesAreOwn'
    BY <1>6 DEF Crash, OwnInv, SurfacesAreOwn, Version
  <2>4. \A t \in Threads : OwnCall(t, call'[t])
    BY <2>1, IdleLemma DEF OwnInv
  <2> QED BY <2>2, <2>3, <2>4 DEF OwnInv, OwnCall, Version
<1>7. CASE Delete \/ Damage \/ UNCHANGED vars
  BY <1>1, <1>7 DEF Delete, Damage, vars
<1> QED BY <1>2, <1>3, <1>4, <1>5, <1>6, <1>7, StepLemma DEF Next

\* A surface that is in use, in the cache of a process or in a backend, is one that the
\* process's own version builds, whichever version wrote the file of the path, whatever
\* was lost of it, and whenever it was replaced or removed (ensure_surface_ and load).
THEOREM OwnSurfacesOnly == Spec => []SurfacesAreOwn
<1>1. Init => OwnInv
  BY IdleLemma DEF Init, OwnInv, SurfacesAreOwn
<1>2. OwnInv => SurfacesAreOwn
  BY DEF OwnInv
<1> QED BY <1>1, <1>2, OwnStep, PTL DEF Spec

-----------------------------------------------------------------------------
(* The directory, among processes that draw salts of their own (none is forked). *)

Started(p) == salt[p] # 0

\* Two processes that run have different salts: no two draw the same, and none is forked.
SaltsDiffer ==
    /\ salt \in [Processes -> Nat] /\ counter \in [Processes -> Nat] /\ drawn \in Nat
    /\ \A p \in Processes : salt[p] <= drawn
    /\ \A p, q \in Processes : Started(p) /\ salt[p] = salt[q] => p = q
    /\ \A t \in Threads : Running(t) => Started(ProcessOf[t])

\* Every name of the directory has an inode of its own.
NamesApart ==
    /\ DOMAIN names \subseteq {Target} \cup ((Nat \ {0}) \X Nat)
    /\ \A n \in DOMAIN names : names[n] \in Files /\ n[1] <= drawn
    /\ \A m, n \in DOMAIN names : names[m] = names[n] => m = n
    /\ data \in [Files -> Seq(Versions \cup {None})]

\* A writer's temporary is in the directory, under a name its process has made, and holds
\* the pieces written so far: all of them when it is renamed.
WrittenSoFar(t) ==
    /\ call[t].temp \in DOMAIN names /\ names[call[t].temp] = call[t].file
    /\ call[t].temp[1] = salt[ProcessOf[t]] /\ call[t].temp[2] < counter[ProcessOf[t]]
    /\ call[t].piece \in 1..Pieces + 1
    /\ call[t].stage = "write" <=> call[t].piece # Pieces + 1
    /\ data[call[t].file] = [i \in 1..call[t].piece - 1 |-> Version(t)]

WritersApart ==
    /\ \A t \in Threads : Writing(t) => WrittenSoFar(t)
    /\ \A t, u \in Threads : Writing(t) /\ Writing(u) /\ call[t].temp = call[u].temp => t = u

FileInv == SaltsDiffer /\ NamesApart /\ WritersApart /\ TempsAreWritten

NoFork == "fork" \notin Faults

\* Thread t and no other moves, and it writes no file before or after the step.
Quiet(t) ==
    /\ \A u \in Threads \ {t} : call'[u] = call[u]
    /\ ~Writing(t) /\ ~Writing(t)'
    /\ Started(ProcessOf[t]) \/ ~Running(t)'

\* The counters only grow, and nothing else changes in the processes.
CountersGrow ==
    /\ UNCHANGED <<salt, drawn>>
    /\ counter' \in [Processes -> Nat]
    /\ \A p \in Processes : counter'[p] >= counter[p]

LEMMA ThreadsProcess == \A t \in Threads : ProcessOf[t] \in Processes /\ Version(t) \in Versions
  BY PipelineAssumption DEF Version, Versions

\* The temporary a process makes next is not in the directory.
LEMMA NewName ==
    ASSUME FileInv, NEW t \in Threads, Running(t)
    PROVE  /\ TempSibling(t) \notin DOMAIN names /\ TempSibling(t) # Target
           /\ \A u \in Threads : Writing(u) => call[u].temp # TempSibling(t)
<1> DEFINE p == ProcessOf[t]
<1>0. p \in Processes /\ salt[p] \in Nat \ {0} /\ counter[p] \in Nat
  BY ThreadsProcess DEF FileInv, SaltsDiffer, Started
<1>1. TempSibling(t)[1] = salt[p] /\ TempSibling(t)[2] = counter[p] /\ TempSibling(t) # Target
  BY <1>0 DEF TempSibling, Target
<1>2. ASSUME NEW u \in Threads, Writing(u), call[u].temp = TempSibling(t)
      PROVE  FALSE
  <2>1. salt[p] = salt[ProcessOf[u]] /\ counter[p] < counter[ProcessOf[u]]
    BY <1>1, <1>2 DEF FileInv, WritersApart, WrittenSoFar
  <2>2. ProcessOf[u] = p
    BY <2>1, <1>0, ThreadsProcess DEF FileInv, SaltsDiffer, Started
  <2> QED BY <2>1, <2>2, <1>0
<1>3. ASSUME TempSibling(t) \in DOMAIN names
      PROVE  FALSE
  <2>1. \E u \in Threads : Writing(u) /\ call[u].temp = TempSibling(t)
    BY <1>0, <1>1, <1>3 DEF FileInv, TempsAreWritten
  <2> QED BY <2>1, <1>2
<1> QED BY <1>1, <1>2, <1>3

\* A temporary of a writer is not the target, and no two writers share a file.
LEMMA WritersFiles ==
    ASSUME FileInv
    PROVE  /\ \A t \in Threads : Writing(t) =>
                  /\ call[t].temp # Target /\ call[t].file \in Files
                  /\ Target \in DOMAIN names => names[Target] # call[t].file
           /\ \A t, u \in Threads : Writing(t) /\ Writing(u) /\ t # u => call[t].file # call[u].file
<1>1. ASSUME NEW t \in Threads, Writing(t)
      PROVE  /\ call[t].temp # Target /\ call[t].temp \in DOMAIN names /\ call[t].file = names[call[t].temp]
  <2>1. Running(t)
    BY <1>1 DEF Writing, Running, At
  <2>2. salt[ProcessOf[t]] # 0 /\ Target[1] = 0
    BY <2>1 DEF FileInv, SaltsDiffer, Started, Target
  <2> QED BY <1>1, <2>2 DEF FileInv, WritersApart, WrittenSoFar
<1>2. \A m, n \in DOMAIN names : names[m] = names[n] => m = n
  BY DEF FileInv, NamesApart
<1>3. \A n \in DOMAIN names : names[n] \in Files
  BY DEF FileInv, NamesApart
<1>4. \A t, u \in Threads : Writing(t) /\ Writing(u) /\ call[t].temp = call[u].temp => t = u
  BY DEF FileInv, WritersApart
<1> QED BY <1>1, <1>2, <1>3, <1>4

\* A step of a thread that writes no file, and leaves the directory alone.
LEMMA QuietLemma ==
    ASSUME FileInv, NEW t \in Threads, Quiet(t), CountersGrow, UNCHANGED disk
    PROVE  FileInv'
<1>0. \A u \in Threads : Writing(u)' => u # t /\ call'[u] = call[u] /\ Writing(u)
  BY DEF Quiet, Writing
<1>1. SaltsDiffer'
  <2>1. ASSUME NEW u \in Threads, Running(u)'
        PROVE  Started(ProcessOf[u])'
    <3>1. CASE u = t
      BY <2>1, <3>1 DEF Quiet, CountersGrow, Started
    <3>2. CASE u # t
      <4>1. Running(u)
        BY <2>1, <3>2 DEF Quiet, Running, At
      <4> QED BY <4>1 DEF FileInv, SaltsDiffer, CountersGrow, Started
    <3> QED BY <3>1, <3>2
  <2> QED BY <2>1 DEF FileInv, SaltsDiffer, CountersGrow, Started
<1>2. NamesApart'
  BY DEF FileInv, NamesApart, disk, CountersGrow
<1>3. WritersApart'
  <2>1. ASSUME NEW u \in Threads, Writing(u)'
        PROVE  WrittenSoFar(u)'
    <3>1. WrittenSoFar(u) /\ call'[u] = call[u]
      BY <1>0, <2>1 DEF FileInv, WritersApart
    <3>2. call[u].temp[2] < counter'[ProcessOf[u]]
      <4>1. call[u].temp \in DOMAIN names
        BY <3>1 DEF WrittenSoFar
      <4>2. call[u].temp[2] \in Int
        BY <4>1 DEF FileInv, NamesApart, Target
      <4>3. call[u].temp[2] < counter[ProcessOf[u]]
        BY <3>1 DEF WrittenSoFar
      <4>4. counter[ProcessOf[u]] \in Int /\ counter'[ProcessOf[u]] \in Int
            /\ counter[ProcessOf[u]] <= counter'[ProcessOf[u]]
        BY ThreadsProcess DEF FileInv, SaltsDiffer, CountersGrow
      <4> QED BY <4>2, <4>3, <4>4
    <3> QED BY <3>1, <3>2 DEF WrittenSoFar, disk, CountersGrow, Version
  <2>2. \A u, w \in Threads : Writing(u)' /\ Writing(w)' /\ call'[u].temp = call'[w].temp => u = w
    BY <1>0 DEF FileInv, WritersApart
  <2> QED BY <2>1, <2>2 DEF WritersApart
<1>4. TempsAreWritten'
  <2>1. ASSUME NEW u \in Threads, Writing(u)
        PROVE  Writing(u)' /\ call'[u] = call[u]
    BY <2>1 DEF Quiet, Writing
  <2> QED BY <2>1 DEF FileInv, TempsAreWritten, disk, CountersGrow
<1> QED BY <1>1, <1>2, <1>3, <1>4 DEF FileInv

\* What whoever opens the file of the path finds.
Visible == IF Target \in DOMAIN names THEN data[names[Target]] ELSE <<>>

\* A temporary is opened: a new name, for an inode nobody uses.
LEMMA OpenTempLemma ==
    ASSUME FileInv, OwnInv, NEW t \in Threads, OpenTemp(t)
    PROVE  FileInv' /\ UNCHANGED Visible
<1> DEFINE p == ProcessOf[t]
           temp == TempSibling(t)
           f == CHOOSE g \in Unused : TRUE
           c == [call[t] EXCEPT !.stage = "write", !.temp = temp, !.file = f, !.piece = 1]
<1>0. p \in Processes /\ counter[p] \in Nat /\ counter' = [counter EXCEPT ![p] = @ + 1]
      /\ UNCHANGED <<salt, drawn>> /\ At(t, "temp") /\ DOMAIN call = Threads /\ DOMAIN call[t] = Fields
  BY ThreadsProcess DEF OpenTemp, FileInv, SaltsDiffer, OwnInv, OwnCall
<1>1. Running(t) /\ Started(p) /\ ~Writing(t)
  BY <1>0 DEF At, Running, Writing, FileInv, SaltsDiffer
<1>2. temp \notin DOMAIN names /\ temp # Target /\ \A u \in Threads : Writing(u) => call[u].temp # temp
  BY <1>1, NewName
<1>3. CountersGrow
  BY <1>0 DEF CountersGrow, FileInv, SaltsDiffer
<1>4. ASSUME Goto(t, "put"), UNCHANGED disk
      PROVE  FileInv' /\ UNCHANGED Visible
  <2>1. \A u \in Threads \ {t} : call'[u] = call[u]
    BY <1>4, <1>0 DEF Goto
  <2>2. call'[t].stage = "put"
    BY <1>4, <1>0 DEF Goto, Fields
  <2>3. Quiet(t)
    BY <2>1, <2>2, <1>1 DEF Quiet, Writing
  <2> QED BY <2>3, <1>3, <1>4, QuietLemma DEF Visible, disk
<1>5. ASSUME Unused # {}, names' = [n \in DOMAIN names \cup {temp} |-> IF n = temp THEN f ELSE names[n]],
             data' = [data EXCEPT ![f] = <<>>], call' = [call EXCEPT ![t] = c]
      PROVE  FileInv' /\ UNCHANGED Visible
  <2>0. f \in Unused
    BY <1>5
  <2>1. f \in Files /\ \A n \in DOMAIN names : names[n] # f
    BY <2>0 DEF Unused
  <2>2. c.stage = "write" /\ c.temp = temp /\ c.file = f /\ c.piece = 1
    BY <1>0 DEF Fields
  <2> HIDE DEF f, c
  <2>3. call'[t] = c /\ \A u \in Threads \ {t} : call'[u] = call[u]
    BY <1>5, <1>0
  <2>4. \A u \in Threads : Writing(u)' <=> (u = t \/ Writing(u))
    BY <2>2, <2>3 DEF Writing
  <2>5. temp[1] = salt[p] /\ temp[2] = counter[p] /\ temp \in (Nat \ {0}) \X Nat /\ temp[1] <= drawn
    BY <1>0, <1>1 DEF TempSibling, FileInv, SaltsDiffer, Started
  <2> HIDE DEF temp
  <2>6. DOMAIN names' = DOMAIN names \cup {temp} /\ names'[temp] = f
        /\ \A n \in DOMAIN names : names'[n] = names[n]
    BY <1>5, <1>2
  <2>7. data \in [Files -> Seq(Versions \cup {None})]
    BY DEF FileInv, NamesApart
  <2>8. data' \in [Files -> Seq(Versions \cup {None})] /\ data'[f] = <<>>
        /\ \A g \in Files \ {f} : data'[g] = data[g]
    BY <1>5, <2>1, <2>7
  <2>9. SaltsDiffer'
    <3>1. \A u \in Threads : Running(u)' => Running(u)
      BY <2>3, <1>1 DEF Running, At
    <3>2. counter' \in [Processes -> Nat]
      BY <1>3 DEF CountersGrow
    <3> QED BY <3>1, <3>2, <1>0 DEF FileInv, SaltsDiffer, Started
  <2>10. NamesApart'
    <3>1. DOMAIN names' \subseteq {Target} \cup ((Nat \ {0}) \X Nat)
      BY <2>5, <2>6 DEF FileInv, NamesApart
    <3>2. \A n \in DOMAIN names' : names'[n] \in Files /\ n[1] <= drawn'
      BY <1>0, <2>1, <2>5, <2>6 DEF FileInv, NamesApart
    <3>3. \A m, n \in DOMAIN names' : names'[m] = names'[n] => m = n
      BY <2>1, <2>6 DEF FileInv, NamesApart
    <3> QED BY <3>1, <3>2, <3>3, <2>8 DEF NamesApart
  <2>11. WritersApart'
    <3>1. WrittenSoFar(t)'
      <4>1. call'[t].temp \in DOMAIN names' /\ names'[call'[t].temp] = call'[t].file
        BY <2>2, <2>3, <2>6
      <4>2. call'[t].temp[1] = salt'[p] /\ call'[t].temp[2] < counter'[p]
        BY <2>2, <2>3, <2>5, <1>0 DEF FileInv, SaltsDiffer
      <4>3. call'[t].piece = 1 /\ call'[t].stage = "write"
        BY <2>2, <2>3
      <4>4. data'[call'[t].file] = [i \in 1..call'[t].piece - 1 |-> Version(t)]
        <5>1. data'[call'[t].file] = <<>>
          BY <2>2, <2>3, <2>8
        <5> QED BY <5>1, <4>3
      <4> QED BY <4>1, <4>2, <4>3, <4>4, PipelineAssumption DEF WrittenSoFar, Version
    <3>2. ASSUME NEW u \in Threads, Writing(u), u # t
          PROVE  WrittenSoFar(u)'
      <4>1. WrittenSoFar(u) /\ call'[u] = call[u]
        BY <3>2, <2>3 DEF FileInv, WritersApart
      <4>2. call[u].file \in Files \ {f} /\ call[u].temp \in DOMAIN names
        BY <4>1, <2>1 DEF WrittenSoFar, FileInv, NamesApart
      <4>3. names'[call[u].temp] = names[call[u].temp] /\ data'[call[u].file] = data[call[u].file]
            /\ call[u].temp \in DOMAIN names'
        BY <4>2, <2>6, <2>8
      <4>4. call[u].temp[2] < counter'[ProcessOf[u]]
        <5>1. call[u].temp[2] < counter[ProcessOf[u]] /\ call[u].temp[2] \in Int
          BY <4>1, <4>2 DEF WrittenSoFar, FileInv, NamesApart, Target
        <5>2. counter[ProcessOf[u]] \in Int /\ counter'[ProcessOf[u]] \in Int
              /\ counter[ProcessOf[u]] <= counter'[ProcessOf[u]]
          BY <1>3, ThreadsProcess DEF FileInv, SaltsDiffer, CountersGrow
        <5> QED BY <5>1, <5>2
      <4> QED BY <4>1, <4>3, <4>4, <1>0 DEF WrittenSoFar, Version
    <3>3. \A u \in Threads : Writing(u)' => WrittenSoFar(u)'
      BY <3>1, <3>2, <2>4
    <3>4. \A u, w \in Threads : Writing(u)' /\ Writing(w)' /\ call'[u].temp = call'[w].temp => u = w
      BY <1>2, <2>2, <2>3, <2>4 DEF FileInv, WritersApart
    <3> QED BY <3>3, <3>4 DEF WritersApart
  <2>12. TempsAreWritten'
    <3>1. \A u \in Threads : Writing(u) => Writing(u)' /\ call'[u] = call[u]
      BY <2>3, <2>4, <1>1
    <3>2. Writing(t)' /\ call'[t].temp = temp
      BY <2>2, <2>3, <2>4
    <3>3. ASSUME NEW n \in DOMAIN names' \ {Target}, n[1] \in {salt[q] : q \in Processes}
          PROVE  \E u \in Threads : Writing(u)' /\ call'[u].temp = n
      <4>1. CASE n = temp
        BY <3>2, <4>1
      <4>2. CASE n # temp
        <5>1. n \in DOMAIN names \ {Target}
          BY <4>2, <3>3, <2>6
        <5>2. PICK u \in Threads : Writing(u) /\ call[u].temp = n
          BY <5>1, <3>3 DEF FileInv, TempsAreWritten
        <5> QED BY <5>2, <3>1
      <4> QED BY <4>1, <4>2
    <3> QED BY <3>3, <1>0 DEF TempsAreWritten
  <2>13. UNCHANGED Visible
    BY <1>2, <2>1, <2>6, <2>8 DEF Visible, FileInv, NamesApart
  <2> QED BY <2>9, <2>10, <2>11, <2>12, <2>13 DEF FileInv
<1>6. CASE temp \in DOMAIN names \/ Unused # {}
  <2>1. \/ Goto(t, "put") /\ UNCHANGED disk
        \/ /\ names' = [n \in DOMAIN names \cup {temp} |-> IF n = temp THEN f ELSE names[n]]
           /\ data' = [data EXCEPT ![f] = <<>>]
           /\ call' = [call EXCEPT ![t] = c]
    BY <1>2 DEF OpenTemp
  <2> QED BY <2>1, <1>2, <1>4, <1>5, <1>6
<1>7. CASE ~(temp \in DOMAIN names \/ Unused # {})
  BY <1>4, <1>7 DEF OpenTemp
<1> QED BY <1>6, <1>7

\* A writer that ends: its temporary is removed, or takes the place of the target.
LEMMA EndLemma ==
    ASSUME FileInv, OwnInv, NEW t \in Threads, Writing(t), UNCHANGED <<processes, data>>,
           call' = [call EXCEPT ![t].stage = "put", ![t].temp = Target, ![t].file = None],
           DOMAIN names' \subseteq (DOMAIN names \ {call[t].temp}) \cup {Target},
           \A n \in DOMAIN names' \ {Target} : names'[n] = names[n],
           \A n \in DOMAIN names \ {Target, call[t].temp} : n \in DOMAIN names',
           Target \in DOMAIN names' =>
               \/ names'[Target] = call[t].file
               \/ Target \in DOMAIN names /\ names'[Target] = names[Target]
    PROVE  FileInv'
<1> DEFINE temp == call[t].temp
<1>0. /\ temp # Target /\ temp \in DOMAIN names /\ names[temp] = call[t].file
      /\ DOMAIN call = Threads /\ DOMAIN call[t] = Fields
  BY WritersFiles DEF FileInv, WritersApart, WrittenSoFar, OwnInv, OwnCall
<1>1. \A u \in Threads : (Writing(u)' <=> Writing(u) /\ u # t) /\ (u # t => call'[u] = call[u])
  <2>1. \A u \in Threads \ {t} : call'[u] = call[u]
    BY <1>0
  <2>2. call'[t].stage = "put"
    BY <1>0 DEF Fields
  <2> QED BY <2>1, <2>2 DEF Writing
<1>2. SaltsDiffer'
  <2>1. \A u \in Threads : Running(u)' => Running(u)
    BY <1>1 DEF Running, At, Writing
  <2> QED BY <2>1 DEF FileInv, SaltsDiffer, Started, processes
<1>3. NamesApart'
  <2>1. DOMAIN names' \subseteq {Target} \cup ((Nat \ {0}) \X Nat) /\ drawn \in Nat
    BY DEF FileInv, NamesApart, SaltsDiffer
  <2>2. \A n \in DOMAIN names' \ {Target} : n \in DOMAIN names /\ n # temp /\ names'[n] = names[n]
    OBVIOUS
  <2>3. Target \in DOMAIN names' => \/ names'[Target] = names[temp]
                                    \/ Target \in DOMAIN names /\ names'[Target] = names[Target]
    BY <1>0
  <2>4. \A n \in DOMAIN names : names[n] \in Files /\ n[1] <= drawn
    BY DEF FileInv, NamesApart
  <2>5. \A m, n \in DOMAIN names : names[m] = names[n] => m = n
    BY DEF FileInv, NamesApart
  <2> HIDE DEF temp
  <2>6. \A n \in DOMAIN names' : names'[n] \in Files /\ n[1] <= drawn
    BY <2>1, <2>2, <2>3, <2>4, <1>0 DEF Target
  <2>7. \A m, n \in DOMAIN names' : names'[m] = names'[n] => m = n
    BY <2>2, <2>3, <2>5, <1>0
  <2> QED BY <2>1, <2>6, <2>7 DEF FileInv, NamesApart, processes
<1>4. WritersApart'
  <2>1. ASSUME NEW u \in Threads, Writing(u), u # t
        PROVE  WrittenSoFar(u)'
    <3>1. WrittenSoFar(u) /\ call'[u] = call[u]
      BY <1>1, <2>1 DEF FileInv, WritersApart
    <3>2. call[u].temp # temp /\ call[u].temp # Target /\ call[u].temp \in DOMAIN names
      BY <2>1, <3>1, WritersFiles DEF FileInv, WritersApart, WrittenSoFar
    <3>3. call[u].temp \in DOMAIN names' /\ names'[call[u].temp] = names[call[u].temp]
      BY <3>2
    <3> QED BY <3>1, <3>3 DEF WrittenSoFar, processes, Version
  <2>2. \A u \in Threads : Writing(u)' => WrittenSoFar(u)'
    BY <1>1, <2>1
  <2>3. \A u, w \in Threads : Writing(u)' /\ Writing(w)' /\ call'[u].temp = call'[w].temp => u = w
    BY <1>1 DEF FileInv, WritersApart
  <2> QED BY <2>2, <2>3 DEF WritersApart
<1>5. TempsAreWritten'
  <2>1. ASSUME NEW n \in DOMAIN names' \ {Target}, n[1] \in {salt[q] : q \in Processes}
        PROVE  \E u \in Threads : Writing(u)' /\ call'[u].temp = n
    <3>1. n \in DOMAIN names \ {Target} /\ n # temp
      BY <2>1
    <3>2. PICK u \in Threads : Writing(u) /\ call[u].temp = n
      BY <2>1, <3>1 DEF FileInv, TempsAreWritten
    <3> QED BY <3>1, <3>2, <1>1
  <2>2. salt' = salt
    BY DEF processes
  <2> QED BY ONLY <2>1, <2>2 DEF TempsAreWritten
<1> QED BY <1>2, <1>3, <1>4, <1>5 DEF FileInv

LEMMA GiveUpLemma ==
    ASSUME FileInv, OwnInv, NEW t \in Threads, Writing(t), GiveUp(t), UNCHANGED <<processes, data>>
    PROVE  FileInv' /\ UNCHANGED Visible
<1>1. DOMAIN names' = DOMAIN names \ {call[t].temp} /\ \A n \in DOMAIN names' : names'[n] = names[n]
  BY DEF GiveUp, Without
<1>2. call' = [call EXCEPT ![t].stage = "put", ![t].temp = Target, ![t].file = None]
  BY DEF GiveUp
<1>3. call[t].temp # Target
  BY WritersFiles
<1>4. FileInv'
  <2>1. /\ DOMAIN names' \subseteq (DOMAIN names \ {call[t].temp}) \cup {Target}
        /\ \A n \in DOMAIN names' \ {Target} : names'[n] = names[n]
        /\ \A n \in DOMAIN names \ {Target, call[t].temp} : n \in DOMAIN names'
        /\ Target \in DOMAIN names' => Target \in DOMAIN names /\ names'[Target] = names[Target]
    BY <1>1
  <2> QED BY <1>2, <2>1, EndLemma
<1> QED BY <1>1, <1>3, <1>4 DEF Visible

\* What is renamed is a whole surface.
LEMMA RenameLemma ==
    ASSUME FileInv, OwnInv, NEW t \in Threads, At(t, "rename"), call[t].temp \in DOMAIN names,
           names' = [n \in (DOMAIN names \ {call[t].temp}) \cup {Target} |->
                        IF n = Target THEN names[call[t].temp] ELSE names[n]],
           call' = [call EXCEPT ![t].stage = "put", ![t].temp = Target, ![t].file = None],
           UNCHANGED <<processes, data>>
    PROVE  FileInv' /\ Visible' = Whole(Version(t))
<1>1. Writing(t)
  BY DEF At, Writing
<1>2. WrittenSoFar(t) /\ Pieces \in Nat
  BY <1>1, PipelineAssumption DEF FileInv, WritersApart
<1>3. DOMAIN names' = (DOMAIN names \ {call[t].temp}) \cup {Target} /\ names'[Target] = call[t].file
      /\ \A n \in DOMAIN names' \ {Target} : names'[n] = names[n]
  BY <1>2 DEF WrittenSoFar
<1>4. FileInv'
  <2>1. \A n \in DOMAIN names \ {Target, call[t].temp} : n \in DOMAIN names'
    BY <1>3
  <2> QED BY <1>1, <1>3, <2>1, EndLemma
<1>5. call[t].piece = Pieces + 1
  BY <1>2 DEF WrittenSoFar, At
<1>6. data[call[t].file] = Whole(Version(t))
  <2>1. call[t].piece - 1 = Pieces
    BY <1>2, <1>5
  <2> QED BY <1>2, <2>1 DEF WrittenSoFar, Whole
<1> QED BY <1>3, <1>4, <1>6 DEF Visible

LEMMA WriteLemma ==
    ASSUME FileInv, OwnInv, NEW t \in Threads, At(t, "write"), UNCHANGED <<processes, names>>,
           data' = [data EXCEPT ![call[t].file] = Written(@, call[t].piece, call[t].surface)],
           call' = [call EXCEPT ![t].stage = IF call[t].piece = Pieces THEN "rename" ELSE "write",
                                ![t].piece = @ + 1]
    PROVE  FileInv' /\ UNCHANGED Visible
<1> DEFINE f == call[t].file
           k == call[t].piece
           s == IF k = Pieces THEN "rename" ELSE "write"
           c == [call[t] EXCEPT !.stage = s, !.piece = @ + 1]
<1>1. Writing(t)
  BY DEF At, Writing
<1>2. WrittenSoFar(t) /\ Pieces \in Nat \ {0} /\ DOMAIN call = Threads /\ DOMAIN call[t] = Fields
      /\ call[t].surface = Version(t)
  BY <1>1, PipelineAssumption DEF FileInv, WritersApart, OwnInv, OwnCall, At, Holding
<1>3. f \in Files /\ (Target \in DOMAIN names => names[Target] # f)
      /\ \A u \in Threads \ {t} : Writing(u) => call[u].file # f
  BY <1>1, WritersFiles
<1>4. k \in 1..Pieces
  BY <1>2 DEF WrittenSoFar, At
<1>5. data \in [Files -> Seq(Versions \cup {None})] /\ Version(t) \in Versions
  BY ThreadsProcess DEF FileInv, NamesApart
<1>6. Written(data[f], k, Version(t)) = [i \in 1..k |-> Version(t)]
  <2>1. data[f] = [i \in 1..k - 1 |-> Version(t)] /\ Len(data[f]) = k - 1
    BY <1>2, <1>4 DEF WrittenSoFar
  <2>2. (IF Len(data[f]) < k THEN k ELSE Len(data[f])) = k
    BY <1>4, <2>1
  <2>3. Written(data[f], k, Version(t))
        = [j \in 1..k |-> IF j = k THEN Version(t) ELSE IF j <= k - 1 THEN data[f][j] ELSE None]
    BY <2>1, <2>2 DEF Written
  <2>4. \A j \in 1..k : (IF j = k THEN Version(t) ELSE IF j <= k - 1 THEN data[f][j] ELSE None) = Version(t)
    BY <1>4, <2>1
  <2> QED BY <2>3, <2>4
<1>7. data' = [data EXCEPT ![f] = [i \in 1..k |-> Version(t)]]
  BY <1>2, <1>6
<1>8. call' = [call EXCEPT ![t] = c]
  OBVIOUS
<1>9. c.stage = s /\ c.piece = k + 1 /\ c.temp = call[t].temp /\ c.file = f
  BY <1>2 DEF Fields
<1> HIDE DEF c, f, k
<1>10. data' \in [Files -> Seq(Versions \cup {None})] /\ data'[f] = [i \in 1..k |-> Version(t)]
       /\ \A g \in Files \ {f} : data'[g] = data[g]
  <2>1. [i \in 1..k |-> Version(t)] \in Seq(Versions \cup {None})
    BY <1>4, <1>5
  <2> QED BY <1>3, <1>5, <1>7, <2>1
<1>11. call'[t] = c /\ \A u \in Threads \ {t} : call'[u] = call[u]
  BY <1>2, <1>8
<1>12. \A u \in Threads : Writing(u)' <=> Writing(u)
  BY <1>1, <1>9, <1>11 DEF Writing
<1>13. SaltsDiffer'
  <2>1. \A u \in Threads : Running(u)' => Running(u)
    BY <1>1, <1>11 DEF Running, At, Writing
  <2> QED BY <2>1 DEF FileInv, SaltsDiffer, Started, processes
<1>14. NamesApart'
  BY <1>10 DEF FileInv, NamesApart, processes
<1>15. WritersApart'
  <2>1. WrittenSoFar(t)'
    <3>1. call'[t].temp = call[t].temp /\ call'[t].file = f /\ call'[t].piece = k + 1 /\ call'[t].stage = s
      BY <1>9, <1>11
    <3>2. (k + 1) - 1 = k /\ k + 1 \in 1..Pieces + 1 /\ (s = "write" <=> k + 1 # Pieces + 1)
      BY <1>4, <1>2
    <3>3. data'[call'[t].file] = [i \in 1..call'[t].piece - 1 |-> Version(t)]
      BY <3>1, <3>2, <1>10
    <3> HIDE DEF s
    <3> QED BY <3>1, <3>2, <3>3, <1>2 DEF WrittenSoFar, Version, processes, f
  <2>2. ASSUME NEW u \in Threads, Writing(u), u # t
        PROVE  WrittenSoFar(u)'
    <3>1. WrittenSoFar(u) /\ call'[u] = call[u]
      BY <1>11, <2>2 DEF FileInv, WritersApart
    <3>2. call[u].file \in Files \ {f}
      BY <2>2, <1>3, WritersFiles
    <3>3. data'[call[u].file] = data[call[u].file]
      BY <3>2, <1>10
    <3> QED BY <3>1, <3>3 DEF WrittenSoFar, Version, processes
  <2>3. \A u, w \in Threads : Writing(u)' /\ Writing(w)' /\ call'[u].temp = call'[w].temp => u = w
    <3>1. \A u \in Threads : call'[u].temp = call[u].temp
      BY <1>9, <1>11
    <3> QED BY <3>1, <1>12 DEF FileInv, WritersApart
  <2> QED BY <2>1, <2>2, <2>3, <1>12 DEF WritersApart
<1>16. TempsAreWritten'
  <2>1. \A u \in Threads : call'[u].temp = call[u].temp
    BY <1>9, <1>11
  <2> QED BY <2>1, <1>12 DEF FileInv, TempsAreWritten, processes
<1>17. UNCHANGED Visible
  BY <1>3, <1>10 DEF Visible, FileInv, NamesApart
<1> QED BY <1>13, <1>14, <1>15, <1>16, <1>17 DEF FileInv

\* A step of the file of the path, as its readers see it.
FileStep == FileOfPath!Next \/ UNCHANGED Visible

LEMMA ThreadStep ==
    ASSUME FileInv, OwnInv, NEW t \in Threads, Step(t)
    PROVE  FileInv' /\ FileStep
<1>0. DOMAIN call = Threads /\ DOMAIN call[t] = Fields
  BY DEF OwnInv, OwnCall
<1>1. Running(t)
  BY DEF Step, CacheGet, Exists, Open, Read, Build, OpenTemp, WritePiece, Rename, CachePut, Running, At
<1>2. Started(ProcessOf[t])
  BY <1>1 DEF FileInv, SaltsDiffer
<1>3. CASE CacheGet(t) \/ Exists(t) \/ Open(t) \/ Read(t) \/ Build(t) \/ CachePut(t)
  <2>1. ~Writing(t) /\ UNCHANGED <<processes, disk>>
    BY <1>3 DEF CacheGet, Exists, Open, Read, Build, CachePut, At, Writing
  <2>2. \A u \in Threads \ {t} : call'[u] = call[u]
    BY <1>0, <1>3 DEF CacheGet, Exists, Open, Read, Build, CachePut, Goto, Reside, Throw
  <2>3. call'[t].stage \in {"idle", "exists", "open", "build", "read", "put", "temp"}
    <3>1. ASSUME NEW s, Goto(t, s)
          PROVE  call'[t].stage = s
      BY <1>0, <3>1 DEF Goto, Fields
    <3>2. ASSUME call' = [call EXCEPT ![t] = Idle]
          PROVE  call'[t].stage = "idle"
      BY <1>0, <3>2 DEF Idle
    <3>3. CASE CacheGet(t)
      BY <3>1, <3>2, <3>3 DEF CacheGet, Reside
    <3>4. CASE Exists(t)
      BY <3>1, <3>2, <3>4 DEF Exists, Throw
    <3>5. CASE Open(t)
      <4>1. CASE Goto(t, "build")
        BY <3>1, <4>1
      <4>2. CASE ~Goto(t, "build")
        <5> DEFINE n == Len(data[names[Target]])
                   c == [call[t] EXCEPT !.stage = "read", !.file = names[Target], !.size = n]
        <5>1. call' = [call EXCEPT ![t] = c]
          BY <3>5, <4>2 DEF Open
        <5>2. c.stage = "read"
          BY <1>0 DEF Fields
        <5> HIDE DEF c
        <5> QED BY <5>1, <5>2, <1>0
      <4> QED BY <4>1, <4>2
    <3>6. CASE Read(t)
      <4> DEFINE c == IF Loads(t, Buffer(t)) THEN [Idle EXCEPT !.stage = "put", !.surface = Buffer(t)[1]]
                      ELSE [Idle EXCEPT !.stage = "build"]
      <4>1. call' = [call EXCEPT ![t] = c]
        BY <3>6 DEF Read
      <4>2. c.stage \in {"put", "build"}
        BY DEF Idle
      <4> HIDE DEF c
      <4> QED BY <4>1, <4>2, <1>0
    <3>7. CASE Build(t)
      <4>1. CASE Throw(t)
        BY <3>2, <4>1 DEF Throw
      <4>2. CASE ~Throw(t)
        <5> DEFINE c == [call[t] EXCEPT !.stage = "temp", !.surface = Version(t)]
        <5>1. call' = [call EXCEPT ![t] = c]
          BY <3>7, <4>2 DEF Build
        <5>2. c.stage = "temp"
          BY <1>0 DEF Fields
        <5> HIDE DEF c
        <5> QED BY <5>1, <5>2, <1>0
      <4> QED BY <4>1, <4>2
    <3>8. CASE CachePut(t)
      BY <3>2, <3>8 DEF CachePut, Reside
    <3> QED BY <1>3, <3>3, <3>4, <3>5, <3>6, <3>7, <3>8
  <2>4. Quiet(t)
    BY <2>1, <2>2, <2>3, <1>2 DEF Quiet, Writing
  <2>5. CountersGrow
    BY <2>1 DEF CountersGrow, processes, FileInv, SaltsDiffer
  <2>6. UNCHANGED Visible
    BY <2>1 DEF Visible, disk
  <2> QED BY <2>1, <2>4, <2>5, <2>6, QuietLemma DEF FileStep
<1>4. CASE OpenTemp(t)
  BY <1>4, OpenTempLemma DEF FileStep
<1>5. CASE WritePiece(t)
  <2>1. Writing(t) /\ UNCHANGED processes /\ At(t, "write")
    BY <1>5 DEF WritePiece, Writing, At
  <2>2. CASE GiveUp(t) /\ UNCHANGED data
    BY <2>1, <2>2, GiveUpLemma DEF FileStep
  <2>3. CASE ~(GiveUp(t) /\ UNCHANGED data)
    <3>1. UNCHANGED names
          /\ data' = [data EXCEPT ![call[t].file] = Written(@, call[t].piece, call[t].surface)]
          /\ call' = [call EXCEPT ![t].stage = IF call[t].piece = Pieces THEN "rename" ELSE "write",
                                  ![t].piece = @ + 1]
      BY <1>5, <2>3 DEF WritePiece
    <3>2. FileInv' /\ UNCHANGED Visible
      BY <2>1, <3>1, WriteLemma
    <3> QED BY <3>2 DEF FileStep
  <2> QED BY <2>2, <2>3
<1>6. CASE Rename(t)
  <2>1. Writing(t) /\ UNCHANGED <<processes, data>> /\ At(t, "rename")
    BY <1>6 DEF Rename, Writing, At
  <2>2. CASE GiveUp(t)
    BY <2>1, <2>2, GiveUpLemma DEF FileStep
  <2>3. CASE ~GiveUp(t)
    <3>1. /\ call[t].temp \in DOMAIN names
          /\ names' = [n \in (DOMAIN names \ {call[t].temp}) \cup {Target} |->
                          IF n = Target THEN names[call[t].temp] ELSE names[n]]
          /\ call' = [call EXCEPT ![t].stage = "put", ![t].temp = Target, ![t].file = None]
      BY <1>6, <2>3 DEF Rename
    <3>2. FileInv' /\ Visible' = Whole(Version(t))
      BY <2>1, <3>1, RenameLemma
    <3>3. FileOfPath!Replace
      BY <3>2, ThreadsProcess DEF FileOfPath!Replace, Visible, Whole
    <3> QED BY <3>2, <3>3 DEF FileStep, FileOfPath!Next
  <2> QED BY <2>2, <2>3
<1> QED BY <1>3, <1>4, <1>5, <1>6 DEF Step

\* What the file loses is its end.
LEMMA LoseLemma ==
    ASSUME FileInv, UNCHANGED <<processes, call>>, Delete \/ Damage
    PROVE  FileInv' /\ FileOfPath!Next
<1>1. Target \in DOMAIN names /\ data \in [Files -> Seq(Versions \cup {None})] /\ names[Target] \in Files
  BY DEF Delete, Damage, FileInv, NamesApart
<1>2. Visible \in Seq(Versions \cup {None}) /\ Visible = data[names[Target]]
  BY <1>1 DEF Visible
<1>3. SaltsDiffer'
  BY DEF FileInv, SaltsDiffer, Started, Running, At, processes
<1>4. CASE Delete
  <2>1. DOMAIN names' = DOMAIN names \ {Target} /\ (\A n \in DOMAIN names' : names'[n] = names[n])
        /\ UNCHANGED <<data, call, processes>>
    BY <1>4 DEF Delete, Without
  <2>2. NamesApart'
    BY <2>1 DEF FileInv, NamesApart, processes
  <2>3. WritersApart'
    <3>1. ASSUME NEW u \in Threads, Writing(u)
          PROVE  WrittenSoFar(u)'
      <4>1. WrittenSoFar(u) /\ call[u].temp # Target
        BY <3>1, WritersFiles DEF FileInv, WritersApart
      <4> QED BY <2>1, <4>1 DEF WrittenSoFar, processes, Version
    <3> QED BY <3>1, <2>1 DEF FileInv, WritersApart, Writing
  <2>4. TempsAreWritten'
    BY <2>1 DEF FileInv, TempsAreWritten, Writing, processes
  <2>5. Visible' = <<>>
    BY <2>1 DEF Visible
  <2>6. FileOfPath!Lose
    <3>1. 0 \in 0..Len(Visible) /\ Visible' = SubSeq(Visible, 1, 0)
      BY <1>2, <2>5
    <3> QED BY <3>1 DEF FileOfPath!Lose, Visible
  <2> QED BY <1>3, <2>2, <2>3, <2>4, <2>6 DEF FileInv, FileOfPath!Next
<1>5. CASE Damage
  <2>1. PICK n \in 0..Len(data[names[Target]]) - 1 :
            data' = [data EXCEPT ![names[Target]] = SubSeq(@, 1, n)]
    BY <1>5 DEF Damage
  <2>2. UNCHANGED <<names, call, processes>>
    BY <1>5 DEF Damage
  <2>3. SubSeq(Visible, 1, n) \in Seq(Versions \cup {None}) /\ n \in 0..Len(Visible)
    BY <1>2, <2>1
  <2>4. data' \in [Files -> Seq(Versions \cup {None})] /\ data'[names[Target]] = SubSeq(Visible, 1, n)
        /\ \A g \in Files \ {names[Target]} : data'[g] = data[g]
    BY <1>1, <1>2, <2>1, <2>3
  <2>5. NamesApart'
    BY <2>2, <2>4 DEF FileInv, NamesApart, processes
  <2>6. WritersApart'
    <3>1. ASSUME NEW u \in Threads, Writing(u)
          PROVE  WrittenSoFar(u)'
      <4>1. WrittenSoFar(u) /\ call[u].file \in Files \ {names[Target]}
        BY <3>1, <1>1, WritersFiles DEF FileInv, WritersApart
      <4>2. data'[call[u].file] = data[call[u].file]
        BY <4>1, <2>4
      <4> QED BY <2>2, <4>1, <4>2 DEF WrittenSoFar, processes, Version
    <3> QED BY <3>1, <2>2 DEF FileInv, WritersApart, Writing
  <2>7. TempsAreWritten'
    BY <2>2 DEF FileInv, TempsAreWritten, Writing, processes
  <2>8. FileOfPath!Lose
    <3>1. Visible' = SubSeq(Visible, 1, n)
      BY <2>2, <2>4, <1>1 DEF Visible
    <3> QED BY <2>3, <3>1 DEF FileOfPath!Lose, Visible
  <2> QED BY <1>3, <2>5, <2>6, <2>7, <2>8 DEF FileInv, FileOfPath!Next
<1> QED BY <1>4, <1>5

\* A process starts with a salt nobody has drawn, or ends; its files stay as they are.
LEMMA StartLemma ==
    ASSUME FileInv, NoFork, NEW p \in Processes, Start(p)
    PROVE  FileInv' /\ UNCHANGED Visible
<1>1. salt[p] = 0 /\ drawn' = drawn + 1 /\ salt' = [salt EXCEPT ![p] = drawn + 1]
      /\ counter' = [counter EXCEPT ![p] = 0] /\ UNCHANGED <<call, names, data>>
  <2>1. Origins(p) = {p}
    BY DEF Origins, NoFork
  <2> QED BY <2>1 DEF Start, disk
<1>2. salt \in [Processes -> Nat] /\ counter \in [Processes -> Nat] /\ drawn \in Nat
      /\ \A q \in Processes : salt[q] <= drawn
  BY DEF FileInv, SaltsDiffer
<1>3. salt'[p] = drawn + 1 /\ counter'[p] = 0
      /\ \A q \in Processes \ {p} : salt'[q] = salt[q] /\ counter'[q] = counter[q]
  BY <1>1, <1>2
<1>4. \A t \in Threads : Running(t) => ProcessOf[t] \in Processes \ {p}
  BY <1>1, ThreadsProcess DEF FileInv, SaltsDiffer, Started
<1>5. SaltsDiffer'
  <2>1. salt' \in [Processes -> Nat] /\ counter' \in [Processes -> Nat] /\ drawn' \in Nat
    BY <1>1, <1>2
  <2>2. \A q \in Processes : salt'[q] <= drawn'
    BY <1>1, <1>2, <1>3
  <2>3. \A q, r \in Processes : salt'[q] # 0 /\ salt'[q] = salt'[r] => q = r
    BY <1>2, <1>3 DEF FileInv, SaltsDiffer, Started
  <2>4. \A t \in Threads : Running(t)' => salt'[ProcessOf[t]] # 0
    BY <1>1, <1>3, <1>4 DEF Running, At, FileInv, SaltsDiffer, Started
  <2> QED BY <2>1, <2>2, <2>3, <2>4 DEF SaltsDiffer, Started
<1>6. NamesApart'
  <2>1. \A n \in DOMAIN names : n[1] <= drawn'
    <3>1. \A n \in DOMAIN names : n[1] \in Nat /\ n[1] <= drawn
      BY DEF FileInv, NamesApart, Target
    <3> QED BY <3>1, <1>1, <1>2
  <2> QED BY <1>1, <2>1 DEF FileInv, NamesApart
<1>7. WritersApart'
  <2>1. ASSUME NEW u \in Threads, Writing(u)
        PROVE  WrittenSoFar(u)'
    <3>1. ProcessOf[u] \in Processes \ {p}
      BY <2>1, <1>4 DEF Writing, Running, At
    <3>2. salt'[ProcessOf[u]] = salt[ProcessOf[u]] /\ counter'[ProcessOf[u]] = counter[ProcessOf[u]]
      BY <3>1, <1>3
    <3>3. WrittenSoFar(u)
      BY <2>1 DEF FileInv, WritersApart
    <3> QED BY <3>2, <3>3, <1>1 DEF WrittenSoFar, Version
  <2> QED BY <2>1, <1>1 DEF FileInv, WritersApart, Writing
<1>8. TempsAreWritten'
  <2>1. ASSUME NEW n \in DOMAIN names \ {Target}, NEW q \in Processes, n[1] = salt'[q]
        PROVE  \E t \in Threads : Writing(t) /\ call[t].temp = n
    <3>1. n[1] <= drawn /\ n[1] \in Nat
      BY <2>1 DEF FileInv, NamesApart
    <3>2. n[1] = salt[q]
      BY <3>1, <2>1, <1>2, <1>3
    <3> QED BY <2>1, <3>2 DEF FileInv, TempsAreWritten
  <2> QED BY <2>1, <1>1 DEF TempsAreWritten, Writing
<1> QED BY <1>1, <1>5, <1>6, <1>7, <1>8 DEF FileInv, Visible

LEMMA CrashLemma ==
    ASSUME FileInv, NEW p \in Processes, Crash(p)
    PROVE  FileInv' /\ UNCHANGED Visible
<1>1. salt' = [salt EXCEPT ![p] = 0] /\ UNCHANGED <<drawn, counter, names, data>>
      /\ call' = [t \in Threads |-> IF ProcessOf[t] = p THEN Idle ELSE call[t]]
  BY DEF Crash, disk
<1>2. salt \in [Processes -> Nat] /\ counter \in [Processes -> Nat] /\ drawn \in Nat
      /\ \A q \in Processes : salt[q] <= drawn
  BY DEF FileInv, SaltsDiffer
<1>3. salt'[p] = 0 /\ \A q \in Processes \ {p} : salt'[q] = salt[q]
  BY <1>1, <1>2
<1>4. \A t \in Threads : IF ProcessOf[t] = p THEN call'[t].stage = "idle" ELSE call'[t] = call[t]
  BY <1>1 DEF Idle
<1>5. \A t \in Threads : Running(t)' => Running(t) /\ ProcessOf[t] \in Processes \ {p} /\ call'[t] = call[t]
  BY <1>4, ThreadsProcess DEF Running, At
<1>6. \A t \in Threads : Writing(t)' <=> Writing(t) /\ ProcessOf[t] # p
  BY <1>4 DEF Writing
<1>7. SaltsDiffer'
  <2>1. salt' \in [Processes -> Nat]
    BY <1>1, <1>2
  <2>2. \A q \in Processes : salt'[q] <= drawn
    BY <1>2, <1>3
  <2>3. \A q, r \in Processes : salt'[q] # 0 /\ salt'[q] = salt'[r] => q = r
    BY <1>3 DEF FileInv, SaltsDiffer, Started
  <2>4. \A t \in Threads : Running(t)' => salt'[ProcessOf[t]] # 0
    BY <1>3, <1>5 DEF FileInv, SaltsDiffer, Started
  <2> QED BY <1>1, <1>2, <2>1, <2>2, <2>3, <2>4 DEF SaltsDiffer, Started
<1>8. NamesApart'
  BY <1>1 DEF FileInv, NamesApart
<1>9. WritersApart'
  <2>1. ASSUME NEW u \in Threads, Writing(u)'
        PROVE  WrittenSoFar(u)' /\ Writing(u) /\ call'[u] = call[u]
    <3>1. Writing(u) /\ ProcessOf[u] \in Processes \ {p} /\ call'[u] = call[u]
      BY <2>1, <1>4, <1>6, ThreadsProcess
    <3>2. WrittenSoFar(u)
      BY <3>1 DEF FileInv, WritersApart
    <3> QED BY <1>1, <1>3, <3>1, <3>2 DEF WrittenSoFar, Version
  <2> QED BY <2>1 DEF FileInv, WritersApart
<1>10. TempsAreWritten'
  <2>1. ASSUME NEW n \in DOMAIN names \ {Target}, NEW q \in Processes, n[1] = salt'[q]
        PROVE  \E t \in Threads : Writing(t)' /\ call'[t].temp = n
    <3>1. n[1] \in Nat \ {0}
      BY <2>1 DEF FileInv, NamesApart
    <3>2. q # p /\ n[1] = salt[q]
      BY <3>1, <2>1, <1>3
    <3>3. PICK t \in Threads : Writing(t) /\ call[t].temp = n
      BY <2>1, <3>2 DEF FileInv, TempsAreWritten
    <3>4. salt[ProcessOf[t]] = salt[q] /\ salt[q] # 0
      BY <3>1, <3>2, <3>3 DEF FileInv, WritersApart, WrittenSoFar
    <3>5. ProcessOf[t] = q
      BY <3>4, ThreadsProcess DEF FileInv, SaltsDiffer, Started
    <3>6. Writing(t)' /\ call'[t] = call[t]
      BY <3>2, <3>3, <3>5, <1>4, <1>6
    <3> QED BY <3>3, <3>6
  <2> QED BY <2>1, <1>1 DEF TempsAreWritten
<1> QED BY <1>1, <1>7, <1>8, <1>9, <1>10 DEF FileInv, Visible

LEMMA DirectoryStep ==
    ASSUME FileInv, OwnInv, NoFork, [Next]_vars
    PROVE  FileInv' /\ FileStep
<1>1. ASSUME NEW t \in Threads, Ensure(t)
      PROVE  FileInv' /\ FileStep
  <2>1. DOMAIN call = Threads /\ DOMAIN call[t] = Fields
    BY DEF OwnInv, OwnCall
  <2>2. call'[t].stage = "lookup" /\ \A u \in Threads \ {t} : call'[u] = call[u]
    BY <1>1, <2>1 DEF Ensure, Goto, Fields
  <2>3. Quiet(t)
    BY <1>1, <2>2 DEF Ensure, Quiet, Writing, At, Started
  <2>4. CountersGrow /\ UNCHANGED disk
    BY <1>1 DEF Ensure, CountersGrow, processes, FileInv, SaltsDiffer
  <2> QED BY <2>3, <2>4, QuietLemma DEF FileStep, Visible, disk
<1>2. ASSUME UNCHANGED <<processes, call, disk>>
      PROVE  FileInv' /\ FileStep
  <2>1. SaltsDiffer' /\ NamesApart'
    BY <1>2 DEF FileInv, SaltsDiffer, Started, Running, At, NamesApart, processes, disk
  <2>2. WritersApart' /\ TempsAreWritten'
    BY <1>2 DEF FileInv, WritersApart, WrittenSoFar, Writing, TempsAreWritten, processes, disk, Version
  <2> QED BY <1>2, <2>1, <2>2 DEF FileInv, FileStep, Visible, disk
<1>3. ASSUME NEW t \in Threads, NewBackend(t)
      PROVE  FileInv' /\ FileStep
  BY <1>2, <1>3 DEF NewBackend
<1>4. ASSUME NEW p \in Processes, Forget(p)
      PROVE  FileInv' /\ FileStep
  BY <1>2, <1>4 DEF Forget
<1>5. ASSUME NEW p \in Processes, Start(p) \/ Crash(p)
      PROVE  FileInv' /\ FileStep
  BY <1>5, StartLemma, CrashLemma DEF FileStep
<1>6. CASE Delete \/ Damage
  <2>1. UNCHANGED <<processes, call>>
    BY <1>6 DEF Delete, Damage
  <2> QED BY <1>6, <2>1, LoseLemma DEF FileStep
<1>7. CASE UNCHANGED vars
  BY <1>2, <1>7 DEF vars
<1> QED BY <1>1, <1>3, <1>4, <1>5, <1>6, <1>7, ThreadStep DEF Next

LEMMA DirectoryStart == Init => FileInv /\ OwnInv /\ FileOfPath!Init
<1> SUFFICES ASSUME Init PROVE FileInv /\ OwnInv /\ FileOfPath!Init
  OBVIOUS
<1>1. OwnInv
  BY IdleLemma DEF Init, OwnInv, SurfacesAreOwn
<1>2. DOMAIN names = {}
  BY DEF Init
<1>3. \A t \in Threads : call[t].stage = "idle"
  BY DEF Init, Idle
<1>4. SaltsDiffer
  BY <1>3 DEF Init, SaltsDiffer, Started, Running, At
<1>5. NamesApart
  <2>1. <<>> \in Seq(Versions \cup {None})
    OBVIOUS
  <2> QED BY <1>2, <2>1 DEF Init, NamesApart
<1>6. WritersApart /\ TempsAreWritten
  BY <1>2, <1>3 DEF WritersApart, TempsAreWritten, Writing
<1>7. FileOfPath!Init
  BY <1>2 DEF FileOfPath!Init
<1> QED BY <1>1, <1>4, <1>5, <1>6, <1>7 DEF FileInv

\* A process that still runs leaves no temporary behind it but those its threads are
\* writing, whatever fails and whoever is killed (write_bytes_atomic), provided no
\* process is forked from another: a fork shares the salt of its parent.
THEOREM TempsAreCleared ==
    ASSUME NoFork
    PROVE  Spec => []TempsAreWritten
<1>1. Init => FileInv /\ OwnInv
  BY DirectoryStart
<1>2. FileInv /\ OwnInv /\ [Next]_vars => FileInv' /\ OwnInv'
  BY DirectoryStep, OwnStep
<1>3. FileInv => TempsAreWritten
  BY DEF FileInv
<1> QED BY <1>1, <1>2, <1>3, PTL DEF Spec

\* Whoever opens the file of the path finds what an AtomicFile holds, the whole surface
\* of one writer or what a power failure has left of it (the contract of
\* write_bytes_atomic), with any number of writers and files, if no process is forked.
THEOREM FileIsAtomic ==
    ASSUME NoFork
    PROVE  Spec => ImplementsFile
<1>1. Init => FileInv /\ OwnInv /\ FileOfPath!Init
  BY DirectoryStart
<1>2. FileInv /\ OwnInv /\ [Next]_vars => FileInv' /\ OwnInv'
  BY DirectoryStep, OwnStep
<1>3. FileInv /\ OwnInv /\ [Next]_vars
      => [FileOfPath!Next]_(IF Target \in DOMAIN names THEN data[names[Target]] ELSE <<>>)
  BY DirectoryStep DEF FileStep, Visible
<1> QED BY <1>1, <1>2, <1>3, PTL DEF Spec, ImplementsFile, FileOfPath!Spec
====

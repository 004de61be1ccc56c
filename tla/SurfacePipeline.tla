---- MODULE SurfacePipeline ----
(***************************************************************************)
(* How a backend gets the surface of one cache path                        *)
(* (SVDSBTLBackend::ensure_surface_): from its own table, from the         *)
(* process-wide cache in memory, from the file in the cache directory, or  *)
(* by building it, which also writes the file through write_bytes_atomic.  *)
(* Processes, which may run different versions of the library, share the   *)
(* directory; threads, each with a backend of its own, share a process.    *)
(*                                                                         *)
(* The surface a version builds is named by the version (the revision in   *)
(* the file), and a file is the sequence of its pieces.  The cache in      *)
(* memory is what SurfaceStore says of it, for one key.                    *)
(***************************************************************************)
EXTENDS Integers, Sequences, FiniteSets

CONSTANTS
    Processes, Threads,
    ProcessOf,    \* the process of each thread
    VersionOf,    \* the version of the library each process runs
    MaxStarts,    \* bound on the processes that start
    Files,        \* inodes of the directory's file system
    Pieces,       \* number of pieces a file is written in
    MaxWrites,    \* bound on the temporaries of one process
    Faults,       \* which of "crash", "failure", "delete", "damage", "fork" happen
    None

Versions == {VersionOf[p] : p \in Processes}

ASSUME PipelineAssumption ==
    /\ ProcessOf \in [Threads -> Processes]
    /\ Pieces \in Nat \ {0} /\ MaxWrites \in Nat /\ MaxStarts \in Nat
    /\ None \notin Files \cup Versions
    /\ Faults \subseteq {"crash", "failure", "delete", "damage", "fork"}

Target == <<0, 0>>

VARIABLES
    salt,       \* kProcessSalt, 0 of a process that does not run
    drawn,      \* number of processes started so far; the n-th draws n, as no two draw the same
    counter,    \* the static counter of make_temp_sibling
    memory,     \* SVDSurfaceCache of each process, at this path
    resident,   \* surfaces_ of the backend of each thread, at this pair
    call,       \* where each thread is in ensure_surface_
    names,      \* the directory: partial function name -> inode
    data        \* the pieces in each inode

processes == <<salt, drawn, counter>>
disk == <<names, data>>
vars == <<processes, memory, resident, call, disk>>

Idle == [stage |-> "idle", surface |-> None, temp |-> Target, file |-> None, size |-> 0, piece |-> 1]

Init ==
    /\ salt = [p \in Processes |-> 0]
    /\ drawn = 0
    /\ counter = [p \in Processes |-> 0]
    /\ memory = [p \in Processes |-> None]
    /\ resident = [t \in Threads |-> None]
    /\ call = [t \in Threads |-> Idle]
    /\ names = [n \in {} |-> None]
    /\ data = [f \in Files |-> <<>>]

-----------------------------------------------------------------------------
At(t, stage) == call[t].stage = stage
Running(t) == ~At(t, "idle")
Version(t) == VersionOf[ProcessOf[t]]
Goto(t, stage) == call' = [call EXCEPT ![t].stage = stage]
Whole(v) == [i \in 1..Pieces |-> v]
Fails == "failure" \in Faults

Without(f, n) == [m \in DOMAIN f \ {n} |-> f[m]]

\* ensure_surface_ is left by an exception.
Throw(t) == call' = [call EXCEPT ![t] = Idle] /\ UNCHANGED resident

\* The surface is stored in surfaces_ and the function returns.
Reside(t, s) ==
    /\ resident' = [resident EXCEPT ![t] = s]
    /\ call' = [call EXCEPT ![t] = Idle]

\* MaxWrites bounds the calls that may need a temporary.
Ensure(t) ==
    /\ At(t, "idle")
    /\ salt[ProcessOf[t]] # 0
    /\ resident[t] = None
    /\ counter[ProcessOf[t]] + Cardinality({u \in Threads \ {t} : ProcessOf[u] = ProcessOf[t] /\ Running(u)})
          < MaxWrites
    /\ Goto(t, "lookup")
    /\ UNCHANGED <<processes, memory, resident, disk>>

CacheGet(t) ==
    /\ At(t, "lookup")
    /\ IF memory[ProcessOf[t]] # None THEN Reside(t, memory[ProcessOf[t]])
       ELSE Goto(t, "exists") /\ UNCHANGED resident
    /\ UNCHANGED <<processes, memory, disk>>

\* std::filesystem::exists, outside the try block: it may throw.
Exists(t) ==
    /\ At(t, "exists")
    /\ \/ Goto(t, IF Target \in DOMAIN names THEN "open" ELSE "build") /\ UNCHANGED resident
       \/ Fails /\ Throw(t)
    /\ UNCHANGED <<processes, memory, disk>>

\* load_from_file opens the file and asks for its size; it may have gone by now.
Open(t) ==
    /\ At(t, "open")
    /\ \/ /\ Target \in DOMAIN names
          /\ call' = [call EXCEPT ![t].stage = "read", ![t].file = names[Target],
                                  ![t].size = Len(data[names[Target]])]
       \/ /\ Target \notin DOMAIN names \/ Fails
          /\ Goto(t, "build")
    /\ UNCHANGED <<processes, memory, resident, disk>>

\* Mutant of Loads: the revision is not compared.
Loads_anyRevision(t, pieces) == \E v \in Versions : pieces = Whole(v)

\* zlib finds a file that is not whole, and check_array and the revision one that is
\* not of this version.
Loads(t, pieces) == pieces = Whole(Version(t))

\* What is read of as many bytes as the file had; nothing if it has fewer by now.
Buffer(t) ==
    IF call[t].size <= Len(data[call[t].file]) THEN SubSeq(data[call[t].file], 1, call[t].size) ELSE <<>>

\* Mutant of Read: a file that does not load is tried again.
Read_retry(t) ==
    /\ At(t, "read")
    /\ call' = [call EXCEPT ![t] = IF Loads(t, Buffer(t))
                                   THEN [Idle EXCEPT !.stage = "put", !.surface = Buffer(t)[1]]
                                   ELSE [Idle EXCEPT !.stage = "exists"]]
    /\ UNCHANGED <<processes, memory, resident, disk>>

\* The file is read and parsed; if that throws, the surface is built.
Read(t) ==
    /\ At(t, "read")
    /\ call' = [call EXCEPT ![t] = IF Loads(t, Buffer(t))
                                   THEN [Idle EXCEPT !.stage = "put", !.surface = Buffer(t)[1]]
                                   ELSE [Idle EXCEPT !.stage = "build"]]
    /\ UNCHANGED <<processes, memory, resident, disk>>

\* The source is sampled and decomposed, which may throw.
Build(t) ==
    /\ At(t, "build")
    /\ \/ call' = [call EXCEPT ![t].stage = "temp", ![t].surface = Version(t)] /\ UNCHANGED resident
       \/ Fails /\ Throw(t)
    /\ UNCHANGED <<processes, memory, disk>>

-----------------------------------------------------------------------------
(* write_bytes_atomic, whose exceptions ensure_surface_ swallows. *)

\* make_temp_sibling
TempSibling(t) == <<salt[ProcessOf[t]], counter[ProcessOf[t]]>>

Unused == Files \ ({names[n] : n \in DOMAIN names} \cup {call[t].file : t \in Threads})

\* The temporary is opened, and truncated if it is there; on a full disk it is not.
OpenTemp(t) ==
    /\ At(t, "temp")
    /\ counter' = [counter EXCEPT ![ProcessOf[t]] = @ + 1]
    /\ LET temp == TempSibling(t)
           f == IF temp \in DOMAIN names THEN names[temp] ELSE CHOOSE g \in Unused : TRUE
       IN  \/ /\ temp \in DOMAIN names \/ Unused # {}
              /\ names' = [n \in DOMAIN names \cup {temp} |-> IF n = temp THEN f ELSE names[n]]
              /\ data' = [data EXCEPT ![f] = <<>>]
              /\ call' = [call EXCEPT ![t].stage = "write", ![t].temp = temp, ![t].file = f, ![t].piece = 1]
           \/ /\ Fails \/ (temp \notin DOMAIN names /\ Unused = {})
              /\ Goto(t, "put")
              /\ UNCHANGED disk
    /\ UNCHANGED <<salt, drawn, memory, resident>>

\* Mutant of GiveUp: the temporary is left behind.
GiveUp_leave(t) ==
    /\ call' = [call EXCEPT ![t].stage = "put", ![t].temp = Target, ![t].file = None]
    /\ UNCHANGED names

\* The temporary is removed, if it is still there, and the write throws.
GiveUp(t) ==
    /\ call' = [call EXCEPT ![t].stage = "put", ![t].temp = Target, ![t].file = None]
    /\ names' = Without(names, call[t].temp)

\* What a file holds when piece i of surface v is written at its place, zeros (None)
\* before it if the file was shorter.
Written(pieces, i, v) ==
    [j \in 1..(IF Len(pieces) < i THEN i ELSE Len(pieces)) |->
        IF j = i THEN v ELSE IF j <= Len(pieces) THEN pieces[j] ELSE None]

\* Mutant of WritePiece: the stream is not asked whether it has failed.
WritePiece_unchecked(t) ==
    /\ At(t, "write")
    /\ \/ /\ data' = [data EXCEPT ![call[t].file] = Written(@, call[t].piece, call[t].surface)]
          /\ call' = [call EXCEPT ![t].stage = IF call[t].piece = Pieces THEN "rename" ELSE "write",
                                  ![t].piece = @ + 1]
       \/ Fails /\ Goto(t, "rename") /\ UNCHANGED data
    /\ UNCHANGED <<processes, memory, resident, names>>

\* The next piece is written, or the stream fails.
WritePiece(t) ==
    /\ At(t, "write")
    /\ \/ /\ data' = [data EXCEPT ![call[t].file] = Written(@, call[t].piece, call[t].surface)]
          /\ call' = [call EXCEPT ![t].stage = IF call[t].piece = Pieces THEN "rename" ELSE "write",
                                  ![t].piece = @ + 1]
          /\ UNCHANGED names
       \/ Fails /\ GiveUp(t) /\ UNCHANGED data
    /\ UNCHANGED <<processes, memory, resident>>

\* std::filesystem::rename replaces the target in one step; it fails if the temporary
\* has gone.
Rename(t) ==
    /\ At(t, "rename")
    /\ \/ /\ call[t].temp \in DOMAIN names
          /\ names' = [n \in (DOMAIN names \ {call[t].temp}) \cup {Target} |->
                          IF n = Target THEN names[call[t].temp] ELSE names[n]]
          /\ call' = [call EXCEPT ![t].stage = "put", ![t].temp = Target, ![t].file = None]
       \/ (Fails \/ call[t].temp \notin DOMAIN names) /\ GiveUp(t)
    /\ UNCHANGED <<processes, memory, resident, data>>

-----------------------------------------------------------------------------
CachePut(t) ==
    /\ At(t, "put")
    /\ memory' = [memory EXCEPT ![ProcessOf[t]] = call[t].surface]
    /\ Reside(t, call[t].surface)
    /\ UNCHANGED <<processes, disk>>

Step(t) ==
    \/ CacheGet(t) \/ Exists(t) \/ Open(t) \/ Read(t) \/ Build(t)
    \/ OpenTemp(t) \/ WritePiece(t) \/ Rename(t) \/ CachePut(t)

\* The caller drops its backend and makes another.
NewBackend(t) ==
    /\ At(t, "idle")
    /\ resident[t] # None
    /\ resident' = [resident EXCEPT ![t] = None]
    /\ UNCHANGED <<processes, memory, call, disk>>

\* The cache in memory evicts the surface, or is cleared.
Forget(p) ==
    /\ memory[p] # None
    /\ memory' = [memory EXCEPT ![p] = None]
    /\ UNCHANGED <<processes, resident, call, disk>>

\* What a process starts from: nothing (itself), or the memory of the one it is forked from.
Origins(p) ==
    {p} \cup IF "fork" \in Faults THEN {q \in Processes : salt[q] # 0 /\ VersionOf[q] = VersionOf[p]} ELSE {}

\* A process starts and draws its salt; a forked one has the salt, the counter and the
\* cache of its parent, and one thread, outside the library.
Start(p) ==
    /\ salt[p] = 0
    /\ drawn < MaxStarts
    /\ drawn' = drawn + 1
    /\ \E q \in Origins(p) :
          /\ salt' = [salt EXCEPT ![p] = IF q = p THEN drawn' ELSE salt[q]]
          /\ counter' = [counter EXCEPT ![p] = IF q = p THEN 0 ELSE counter[q]]
          /\ memory' = [memory EXCEPT ![p] = memory[q]]
    /\ UNCHANGED <<resident, call, disk>>

\* A process is killed; what it has written stays.
Crash(p) ==
    /\ "crash" \in Faults
    /\ salt[p] # 0
    /\ salt' = [salt EXCEPT ![p] = 0]
    /\ memory' = [memory EXCEPT ![p] = None]
    /\ resident' = [t \in Threads |-> IF ProcessOf[t] = p THEN None ELSE resident[t]]
    /\ call' = [t \in Threads |-> IF ProcessOf[t] = p THEN Idle ELSE call[t]]
    /\ UNCHANGED <<drawn, counter, disk>>

\* The user empties the cache directory of surfaces.
Delete ==
    /\ "delete" \in Faults
    /\ Target \in DOMAIN names
    /\ names' = Without(names, Target)
    /\ UNCHANGED <<processes, memory, resident, call, data>>

\* The end of the file is lost: nothing has been synchronized when the power fails.
Damage ==
    /\ "damage" \in Faults
    /\ Target \in DOMAIN names
    /\ \E n \in 0..Len(data[names[Target]]) - 1 : data' = [data EXCEPT ![names[Target]] = SubSeq(@, 1, n)]
    /\ UNCHANGED <<processes, memory, resident, call, names>>

Next ==
    \/ \E t \in Threads : Ensure(t) \/ Step(t) \/ NewBackend(t)
    \/ \E p \in Processes : Forget(p) \/ Start(p) \/ Crash(p)
    \/ Delete \/ Damage

Spec == Init /\ [][Next]_vars

\* A thread inside ensure_surface_ is scheduled, and every system call returns.
FairSpec == Spec /\ \A t \in Threads : WF_vars(Step(t))

-----------------------------------------------------------------------------
Names == {Target} \cup ((1..MaxStarts) \X (0..MaxWrites - 1))

TypeOK ==
    /\ salt \in [Processes -> 0..MaxStarts] /\ drawn \in 0..MaxStarts
    /\ counter \in [Processes -> 0..MaxWrites]
    /\ memory \in [Processes -> Versions \cup {None}]
    /\ resident \in [Threads -> Versions \cup {None}]
    /\ call \in [Threads ->
          [stage : {"idle", "lookup", "exists", "open", "read", "build", "temp", "write", "rename", "put"},
           surface : Versions \cup {None}, temp : Names, file : Files \cup {None},
           size : 0..Pieces, piece : 1..Pieces + 1]]
    /\ DOMAIN names \subseteq Names /\ \A n \in DOMAIN names : names[n] \in Files
    /\ \A f \in Files : data[f] \in Seq(Versions \cup {None}) /\ Len(data[f]) <= Pieces

\* Whatever is in the directory (the file of another version, half a file after a power
\* failure, a file that is replaced or removed while it is read), every surface a
\* process uses is the one its own version builds.
SurfacesAreOwn ==
    /\ \A p \in Processes : memory[p] \in {None, VersionOf[p]}
    /\ \A t \in Threads : resident[t] \in {None, Version(t)}

Writing(t) == call[t].stage \in {"write", "rename"}

\* A process leaves no temporary in the directory but those its threads are writing,
\* also when a write or a rename fails; only a killed process does.
TempsAreWritten ==
    \A n \in DOMAIN names \ {Target} :
        n[1] \in {salt[p] : p \in Processes} => \E t \in Threads : Writing(t) /\ call[t].temp = n

\* "Concurrent writers either see the previous complete file or one complete writer's
\* payload": the file of this path is an AtomicFile.
FileOfPath ==
    INSTANCE AtomicFile WITH Payloads <- Versions,
        visible <- IF Target \in DOMAIN names THEN data[names[Target]] ELSE <<>>
ImplementsFile == FileOfPath!Spec

\* Every call of ensure_surface_ ends, with a surface or an exception, whatever the
\* other processes do to the file meanwhile.
EnsureEnds == \A t \in Threads : Running(t) ~> ~Running(t)
====
